---- MODULE Spec2Model ----
(***************************************************************************)
(* gffy: streaming GFF3 statistics.                                        *)
(*                                                                         *)
(* The model follows compute_gff_stats (src/src/gffy/compute_stats.py):    *)
(* rows are read one at a time and handed to process_feature               *)
(* (src/src/gffy/tools/helpers.py), rows no parent of which is known are   *)
(* put on the orphans list, the list is re-submitted pass after pass       *)
(* (resolve_orphans) until a pass resolves nothing or max_iterations is    *)
(* reached, then genes are categorised, transcripts are aggregated and     *)
(* the report is built.                                                    *)
(*                                                                         *)
(* The two files were written against different drafts of the classes:     *)
(* compute_stats.py names the exon array exons_flat and the CDS fields     *)
(* cds_segments / cds_total_len / cds_lens, helpers.py and classes.py name *)
(* them exons_lengths and cds_count / cds_len_sum / cds_lengths.  The      *)
(* model uses the names of classes.py and reads the aggregator's tests and *)
(* pushes through that renaming.  compute_stats.py hands start, end and    *)
(* length to process_feature and start and end to init_orphan_feature,     *)
(* where helpers.py takes the length only; the length is end - start + 1,  *)
(* which is also what resolve_orphans computes from the orphan.  The       *)
(* intron lists of the aggregator are computed from the exon coordinates   *)
(* of a transcript: the model keeps them as exons_flat, a list of          *)
(* <<start, end>> pairs in the order the exons arrived, next to the        *)
(* exons_lengths of helpers.py.  The lists that the report summarises by   *)
(* min, max, mean and median are in the report of the model as the lists.  *)
(*                                                                         *)
(* A run starts by opening its source (a local file or a URL, gzipped or   *)
(* plain, which may be missing or answer with an error status) and reads   *)
(* a stream of lines; a line is parsed by parse_gff_line_fast, which       *)
(* raises on a start or end that is no integer and on an attribute         *)
(* without '='.  Every exception ends the run in the handler that returns  *)
(* the empty mapping.  The file object, the GzipFile around it and the     *)
(* order in which they are closed are part of the state.  When a run has   *)
(* returned, compute_gff_stats may be invoked again on the same source.    *)
(*                                                                         *)
(* compute_gff_stats is called as a library function or by main of cli.py, *)
(* which calls it once, writes the report to stdout or to the --output     *)
(* file and ends the process with an exit status.  The progress lines      *)
(* that compute_gff_stats prints are not part of the model.                *)
(***************************************************************************)
EXTENDS Integers, Sequences, FiniteSets, TLC

(***************************************************************************)
(* Values                                                                  *)
(***************************************************************************)

\* Python None for a feature id, a transcript type, a category.
NoId == "None"
NoType == "None"
NoCat == "None"

\* A biotype is a sequence of one-character strings; None and "" are both
\* the empty sequence (categorize_roots reads `info.biotype or ""`).
NoBiotype == <<>>

UpperChars == <<"A","B","C","D","E","F","G","H","I","J","K","L","M",
                "N","O","P","Q","R","S","T","U","V","W","X","Y","Z">>
LowerChars == <<"a","b","c","d","e","f","g","h","i","j","k","l","m",
                "n","o","p","q","r","s","t","u","v","w","x","y","z">>

\* str.lower() on one character
LowerChar(c) ==
    IF \E i \in 1..Len(UpperChars) : UpperChars[i] = c
    THEN LowerChars[CHOOSE i \in 1..Len(UpperChars) : UpperChars[i] = c]
    ELSE c

\* str.lower()
Lower(s) == [i \in 1..Len(s) |-> LowerChar(s[i])]

\* `sub in s` for strings
Contains(sub, s) ==
    \E k \in 0..(Len(s) - Len(sub)) :
        \A i \in 1..Len(sub) : s[k + i] = sub[i]

PROTEIN_CODING == <<"p","r","o","t","e","i","n","_","c","o","d","i","n","g">>

\* feat_code_get(feature_type, 0): 1 for an exon, 2 for a CDS, 0 otherwise
FEATURE_CODES(feature_type) ==
    IF feature_type = "exon" THEN 1
    ELSE IF feature_type = "CDS" THEN 2
    ELSE 0

max_iterations == 20

(***************************************************************************)
(* Dictionaries: a function for the mapping and a sequence for the         *)
(* insertion order of its keys.                                            *)
(***************************************************************************)

DictPut(d, k, v) ==
    IF k \in DOMAIN d THEN [d EXCEPT ![k] = v] ELSE d @@ (k :> v)

KeysPut(keys, d, k) ==
    IF k \in DOMAIN d THEN keys ELSE Append(keys, k)

DictGet(d, k, default) ==
    IF k \in DOMAIN d THEN d[k] ELSE default

RECURSIVE SeqSum(_)
SeqSum(s) == IF s = <<>> THEN 0 ELSE Head(s) + SeqSum(Tail(s))

Range(s) == {s[i] : i \in 1..Len(s)}

(***************************************************************************)
(* classes.py                                                              *)
(***************************************************************************)

Gene(feature_type, biotype, length) ==
    [feature_type |-> feature_type, biotype |-> biotype, length |-> length,
     has_cds |-> FALSE, has_exon |-> FALSE, has_multiple_exons |-> FALSE]

\* Gene.set_category: the value of self.category after the call, which is
\* the None of __init__ when no branch assigns it
set_category(self) ==
    IF self.feature_type = "pseudogene" THEN "pseudogene"
    ELSE IF self.has_cds \/ self.biotype = PROTEIN_CODING THEN "coding"
    ELSE IF self.has_exon
    THEN (IF self.has_multiple_exons \/ self.length > 200
          THEN "long_non_coding"
          ELSE "short_non_coding")
    ELSE NoCat

Transcript(gene_id, ttype) ==
    [gene_id |-> gene_id, type |-> ttype, length |-> 0,
     exons_lengths |-> <<>>, exon_len_sum |-> 0, exon_count |-> 0,
     cds_len_sum |-> 0, cds_count |-> 0, cds_lengths |-> <<>>,
     exons_flat |-> <<>>]

(***************************************************************************)
(* Rows.  A row is what parse_gff_line_fast extracts from one line.        *)
(***************************************************************************)

Row(id, type, start, end, parents, biotype) ==
    [id |-> id, type |-> type, start |-> start, end |-> end,
     parents |-> parents, biotype |-> biotype]

\* length = end - start + 1
RowLength(row) == row.end - row.start + 1

(***************************************************************************)
(* Lines and parse_gff_line_fast.  A line is its columns: the feature type *)
(* (cols[2]), the texts of start and end (cols[3], cols[4]), sequences of  *)
(* one-character strings, and the attribute column (cols[8]) as the list   *)
(* of its ';'-separated attributes, each the list of the parts that        *)
(* attr.split("=") gives: <<"ID", "g1">> for ID=g1, <<"note">> for an      *)
(* attribute without '='.  The value of a Parent attribute is the list of  *)
(* its ','-separated ids.                                                  *)
(***************************************************************************)

SKIP_FEATURES == {"region", "chromosome", "scaffold"}

Digits == <<"0", "1", "2", "3", "4", "5", "6", "7", "8", "9">>

\* The decimal text of a natural number
RECURSIVE FormatInt(_)
FormatInt(n) ==
    IF n < 10 THEN <<Digits[n + 1]>>
    ELSE Append(FormatInt(n \div 10), Digits[(n % 10) + 1])

\* int(text) raises ValueError
IntRaises(text) ==
    text = <<>> \/ \E i \in 1..Len(text) : text[i] \notin Range(Digits)

\* int(text) for a text of digits
RECURSIVE int(_)
int(text) ==
    IF text = <<>> THEN 0
    ELSE 10 * int(SubSeq(text, 1, Len(text) - 1))
           + ((CHOOSE d \in 1..10 : Digits[d] = text[Len(text)]) - 1)

Cols(type, start, end, attrs) ==
    [type |-> type, start |-> start, end |-> end, attrs |-> attrs]

BiotypeKeys == {"biotype", "gene_biotype", "transcript_biotype"}

\* for attr in attr_str.split(";"): key, value = attr.split("="); ...
RECURSIVE ParseAttrs(_, _, _)
ParseAttrs(acc, attrs, i) ==
    IF i > Len(attrs) THEN acc
    ELSE IF Len(attrs[i]) # 2 THEN [acc EXCEPT !.ok = FALSE]
    ELSE LET key == attrs[i][1]
             value == attrs[i][2]
         IN ParseAttrs(
                IF key = "ID" THEN [acc EXCEPT !.feature_id = value]
                ELSE IF key = "Parent" THEN [acc EXCEPT !.parent_ids = value]
                ELSE IF key \in BiotypeKeys THEN [acc EXCEPT !.biotype = value]
                ELSE acc,
                attrs, i + 1)

\* attr_str.split(";"): the split of an empty column is one empty attribute
AttrList(attrs) == IF attrs = <<>> THEN <<<<"">>>> ELSE attrs

\* parse_gff_line_fast: ok is FALSE when it raises ValueError
parse_gff_line_fast(cols) ==
    IF IntRaises(cols.start) \/ IntRaises(cols.end)
    THEN [ok |-> FALSE]
    ELSE LET start == int(cols.start)
             end == int(cols.end)
         IN ParseAttrs([ok |-> TRUE, feature_type |-> cols.type,
                        start |-> start, end |-> end,
                        length |-> end - start + 1,
                        parent_ids |-> <<>>, biotype |-> NoBiotype,
                        feature_id |-> NoId],
                       AttrList(cols.attrs), 1)

\* The line of a row: ID, Parent and biotype attributes for the fields the
\* row has.
LineOf(row) ==
    Cols(row.type, FormatInt(row.start), FormatInt(row.end),
         (IF row.id # NoId THEN <<<<"ID", row.id>>>> ELSE <<>>)
           \o (IF row.parents # <<>> THEN <<<<"Parent", row.parents>>>>
               ELSE <<>>)
           \o (IF row.biotype # NoBiotype THEN <<<<"biotype", row.biotype>>>>
               ELSE <<>>))

(***************************************************************************)
(* process_feature                                                         *)
(***************************************************************************)

\* The tables process_feature mutates, as one value.
Tables(r, rk, i2r, t, tk) ==
    [roots |-> r, roots_keys |-> rk, id_to_root |-> i2r,
     transcripts |-> t, transcripts_keys |-> tk]

\* The exon case without the append to exons_lengths
ExonCaseM(t, length) ==
    [t EXCEPT !.exon_count = @ + 1,
              !.exon_len_sum = @ + length]

\* Exon Case, the part that changes the transcript
ExonCase(t, length) ==
    [t EXCEPT !.exon_count = @ + 1,
              !.exons_lengths = Append(@, length),
              !.exon_len_sum = @ + length]

\* The CDS case that adds 1, not the length, to cds_len_sum
CdsCaseM(t, length) ==
    [t EXCEPT !.cds_count = @ + 1,
              !.cds_len_sum = @ + 1,
              !.cds_lengths = Append(@, length)]

\* CDS Case, the part that changes the transcript
CdsCase(t, length) ==
    [t EXCEPT !.cds_count = @ + 1,
              !.cds_len_sum = @ + length,
              !.cds_lengths = Append(@, length)]

\* The entry replaced by a new one
UpdateTranscriptM(t, root_id, feature_type, length) ==
    [Transcript(root_id, feature_type) EXCEPT !.length = length]

\* t.gene_id = root_id; t.type = feature_type; t.length = length, on the
\* entry the table has under the id of the feature
UpdateTranscript(t, root_id, feature_type, length) ==
    [t EXCEPT !.gene_id = root_id, !.type = feature_type, !.length = length]

\* Parent Case 1 that also enters the feature into the gene table
ParentIsGeneM(tb, feature_id, feature_type, length, root_id) ==
    [tb EXCEPT
        !.roots_keys = KeysPut(@, tb.roots, feature_id),
        !.roots = DictPut(@, feature_id, Gene(feature_type, NoBiotype, length))]

\* Every feature with an id taken for a transcript
IsTranscriptFeatureM(feature_id, feature_type) == feature_id # NoId

\* if feature_id and feature_code == 0
IsTranscriptFeature(feature_id, feature_type) ==
    feature_id # NoId /\ FEATURE_CODES(feature_type) = 0

\* Parent Case 1: the parent is a gene, the feature is a transcript
ParentIsGene(tb, feature_id, feature_type, length, root_id) ==
    IF IsTranscriptFeature(feature_id, feature_type)
    THEN LET t == IF feature_id \in DOMAIN tb.transcripts
                  THEN UpdateTranscript(tb.transcripts[feature_id], root_id,
                                        feature_type, length)
                  ELSE [Transcript(root_id, feature_type) EXCEPT
                            !.length = length]
         IN [tb EXCEPT
                !.transcripts_keys = KeysPut(@, tb.transcripts, feature_id),
                !.transcripts = DictPut(@, feature_id, t)]
    ELSE tb

\* The coordinates of an exon, as the aggregator reads them
ExonCoords(t, start, end) ==
    [t EXCEPT !.exons_flat = Append(@, <<start, end>>)]

\* The flag as the value of the test exon_count == 2
MultipleExonsM(flag, exon_count) == exon_count = 2

\* if t.exon_count == 2: get_root(root_id).has_multiple_exons = True
MultipleExons(flag, exon_count) == IF exon_count = 2 THEN TRUE ELSE flag

\* Parent Case 2: the parent is a transcript, the feature is a leaf
ParentIsTranscript(tb, feature_type, start, end, length, parent_id, root_id) ==
    LET t0 == IF parent_id \in DOMAIN tb.transcripts
              THEN tb.transcripts[parent_id]
              ELSE Transcript(root_id, NoType)
        code == FEATURE_CODES(feature_type)
        t1 == IF code = 1 THEN ExonCoords(ExonCase(t0, length), start, end)
              ELSE IF code = 2 THEN CdsCase(t0, length)
              ELSE t0
        g0 == tb.roots[root_id]
        g1 == IF code = 1
              THEN [g0 EXCEPT
                       !.has_multiple_exons =
                            MultipleExons(@, t1.exon_count),
                       !.has_exon = TRUE]
              ELSE IF code = 2 THEN [g0 EXCEPT !.has_cds = TRUE]
              ELSE g0
    IN [tb EXCEPT
           !.transcripts_keys = KeysPut(@, tb.transcripts, parent_id),
           !.transcripts = DictPut(@, parent_id, t1),
           !.roots = [@ EXCEPT ![root_id] = g1]]

\* The feature mapped to its parent
RootMappingM(id_to_root, feature_id, parent_id, root_id) ==
    DictPut(id_to_root, feature_id, parent_id)

\* id_to_root[feature_id] = root_id
RootMapping(id_to_root, feature_id, parent_id, root_id) ==
    DictPut(id_to_root, feature_id, root_id)

\* One iteration of `for parent_id in parent_ids`, for a parent that is a
\* key of id_to_root.
ResolvedParent(tb, feature_id, feature_type, start, end, length, parent_id) ==
    LET root_id == tb.id_to_root[parent_id]
        tb1 == IF feature_id # NoId
               THEN [tb EXCEPT
                        !.id_to_root =
                            RootMapping(@, feature_id, parent_id, root_id)]
               ELSE tb
    IN IF parent_id = root_id
       THEN ParentIsGene(tb1, feature_id, feature_type, length, root_id)
       ELSE ParentIsTranscript(tb1, feature_type, start, end, length,
                               parent_id, root_id)

\* A transcript entry made for a parent that is not resolved
UnresolvedParentM(tb, parent_id) ==
    [tb EXCEPT
        !.transcripts_keys = KeysPut(@, tb.transcripts, parent_id),
        !.transcripts = DictPut(@, parent_id, Transcript(NoId, NoType))]

\* if root_id is None: continue
UnresolvedParent(tb, parent_id) == tb

\* processed left as it is by a parent that is a gene
ProcessedM(processed, parent_id, root_id) == processed \/ parent_id # root_id

\* processed = True, in Parent Case 1 and at the end of Parent Case 2
Processed(processed, parent_id, root_id) == TRUE

\* The loop left after the first parent that is resolved
RECURSIVE ParentLoopM(_, _, _, _, _, _, _, _, _)
ParentLoopM(tb, processed, feature_id, feature_type, start, end, length, parent_ids, i) ==
    IF i > Len(parent_ids)
    THEN [tb |-> tb, processed |-> processed]
    ELSE IF parent_ids[i] \notin DOMAIN tb.id_to_root
    THEN ParentLoopM(tb, processed, feature_id, feature_type, start, end,
                     length, parent_ids, i + 1)
    ELSE [tb |-> ResolvedParent(tb, feature_id, feature_type, start, end,
                                length, parent_ids[i]),
          processed |-> TRUE]

RECURSIVE ParentLoop(_, _, _, _, _, _, _, _, _)
ParentLoop(tb, processed, feature_id, feature_type, start, end, length, parent_ids, i) ==
    IF i > Len(parent_ids)
    THEN [tb |-> tb, processed |-> processed]
    ELSE IF parent_ids[i] \notin DOMAIN tb.id_to_root
    THEN ParentLoop(UnresolvedParent(tb, parent_ids[i]), processed,
                    feature_id, feature_type, start, end, length, parent_ids,
                    i + 1)
    ELSE ParentLoop(ResolvedParent(tb, feature_id, feature_type, start, end,
                                   length, parent_ids[i]),
                    Processed(processed, parent_ids[i],
                              tb.id_to_root[parent_ids[i]]),
                    feature_id, feature_type, start, end, length,
                    parent_ids, i + 1)

\* Every row without a Parent list taken for a gene
IsRootM(feature_id, parent_ids) == parent_ids = <<>>

\* if not parent_ids and feature_id
IsRoot(feature_id, parent_ids) == parent_ids = <<>> /\ feature_id # NoId

process_feature(tb, feature_id, feature_type, start, end, length, parent_ids, biotype) ==
    IF IsRoot(feature_id, parent_ids)
    THEN [tb |-> [tb EXCEPT
                     !.roots_keys = KeysPut(@, tb.roots, feature_id),
                     !.roots = DictPut(@, feature_id,
                                       Gene(feature_type, biotype, length)),
                     !.id_to_root = DictPut(@, feature_id, feature_id)],
          processed |-> TRUE]
    ELSE ParentLoop(tb, FALSE, feature_id, feature_type, start, end, length,
                    parent_ids, 1)

(***************************************************************************)
(* resolve_orphans, one orphan at a time                                   *)
(***************************************************************************)

\* resolve_orphans that keeps no orphan
StillOrphanedM(still_orphaned, orphan, processed) ==
    still_orphaned

\* if not processed: still_orphaned.append(orphan)
StillOrphaned(still_orphaned, orphan, processed) ==
    IF processed THEN still_orphaned ELSE Append(still_orphaned, orphan)

\* The orphan handed to process_feature twice
ResolveOneM(tb, orphan) ==
    process_feature(process_feature(tb, orphan.id, orphan.type, orphan.start,
                                    orphan.end, orphan.end - orphan.start + 1,
                                    orphan.parents, orphan.biotype).tb,
                    orphan.id, orphan.type, orphan.start, orphan.end,
                    orphan.end - orphan.start + 1,
                    orphan.parents, orphan.biotype)

\* The call resolve_orphans makes for one orphan.
ResolveOne(tb, orphan) ==
    process_feature(tb, orphan.id, orphan.type, orphan.start, orphan.end,
                    orphan.end - orphan.start + 1,
                    orphan.parents, orphan.biotype)

(***************************************************************************)
(* categorize_roots                                                        *)
(***************************************************************************)

Categories == {"coding", "long_non_coding", "short_non_coding", "pseudogene"}

\* The length test with >= for >
IsLongM(info) ==
    info.length >= 200 \/ info.has_multiple_exons

\* gene_length > 200 or info.has_multiple_exons
IsLong(info) ==
    info.length > 200 \/ info.has_multiple_exons

\* The loop body with the coding test before the pseudogene test
CategoryOfM(info) ==
    IF info.has_cds \/ Contains(PROTEIN_CODING, Lower(info.biotype))
    THEN "coding"
    ELSE IF info.feature_type = "pseudogene" THEN "pseudogene"
    ELSE IF info.has_exon
    THEN (IF IsLong(info) THEN "long_non_coding" ELSE "short_non_coding")
    ELSE NoCat

\* The body of the loop of categorize_roots.
CategoryOf(info) ==
    IF info.feature_type = "pseudogene" THEN "pseudogene"
    ELSE IF info.has_cds \/ Contains(PROTEIN_CODING, Lower(info.biotype))
    THEN "coding"
    ELSE IF info.has_exon
    THEN (IF IsLong(info) THEN "long_non_coding" ELSE "short_non_coding")
    ELSE NoCat

categorize_roots(r) == [root_id \in DOMAIN r |-> CategoryOf(r[root_id])]

\* A lookup that falls back to a category where the gene has none
get_categoryM(rtc, id) ==
    IF id \in DOMAIN rtc /\ rtc[id] # NoCat THEN rtc[id]
    ELSE "short_non_coding"

\* get_category = root_to_category.get
get_category(rtc, id) == DictGet(rtc, id, NoCat)

\* cat_gene_lengths: for rid, info in roots.items(): if cat: append
RECURSIVE GeneLengths(_, _, _, _)
GeneLengths(acc, r, rtc, keys) ==
    IF keys = <<>> THEN acc
    ELSE LET rid == Head(keys)
             cat == get_category(rtc, rid)
         IN GeneLengths(IF cat # NoCat
                        THEN [acc EXCEPT ![cat] = Append(@, r[rid].length)]
                        ELSE acc,
                        r, rtc, Tail(keys))

(***************************************************************************)
(* The aggregation of one transcript into cat_type_stats[category]         *)
(***************************************************************************)

InitCts ==
    [per_gene_type_counts |-> <<>>,
     transcript_lengths |-> <<>>,
     type_transcripts |-> <<>>,
     type_span_lens |-> <<>>,
     type_exon_counts |-> <<>>,
     type_exon_lens |-> <<>>,
     type_concat_exon_lens |-> <<>>,
     type_intron_counts |-> <<>>,
     type_intron_lens |-> <<>>,
     type_concat_intron_lens |-> <<>>,
     type_cds_counts |-> <<>>,
     type_cds_lens |-> <<>>,
     type_concat_cds_lens |-> <<>>]

InitCatTypeStats == [c \in Categories |-> InitCts]

\* Only the coding entry of cat_type_stats has the type_cds_* keys.
HasCdsKeys(category) == category = "coding"

\* if tinfo.exons_flat and tinfo.type
IsCounted(tinfo) == tinfo.exons_lengths # <<>> /\ tinfo.type # NoType

\* d[k].append(v) / d[k].extend(vs) on a defaultdict(list)
ListExtend(d, k, vs) == DictPut(d, k, DictGet(d, k, <<>>) \o vs)

\* d[k] += 1 on a defaultdict(int)
Incr(d, k) == DictPut(d, k, DictGet(d, k, 0) + 1)

\* indices.sort(key=lambda i: exons_flat[i]): the exons by start, exons of
\* equal start in the order they arrived
RECURSIVE SortByStart(_)
SortByStart(exons_flat) ==
    IF exons_flat = <<>> THEN <<>>
    ELSE LET n == Len(exons_flat)
             sorted == SortByStart(SubSeq(exons_flat, 1, n - 1))
             x == exons_flat[n]
             k == Cardinality({i \in 1..(n - 1) : sorted[i][1] <= x[1]})
         IN SubSeq(sorted, 1, k) \o <<x>> \o SubSeq(sorted, k + 1, n - 1)

\* intron_lens: the gaps between neighbours in start order, those of
\* length zero or less left out
IntronLens(exons_flat) ==
    LET sorted == SortByStart(exons_flat)
        gaps == [j \in 1..(Len(sorted) - 1) |->
                    sorted[j + 1][1] - sorted[j][2] - 1]
    IN SelectSeq(gaps, LAMBDA intron_len : intron_len > 0)

\* The intron statistics of one counted transcript
AggregateIntrons(cts, ttype, tinfo) ==
    LET intron_lens == IntronLens(tinfo.exons_flat)
    IN IF Len(tinfo.exons_lengths) > 1 /\ Len(intron_lens) > 0
       THEN [cts EXCEPT
               !.type_intron_counts = ListExtend(@, ttype, <<Len(intron_lens)>>),
               !.type_concat_intron_lens =
                   ListExtend(@, ttype, <<SeqSum(intron_lens)>>),
               !.type_intron_lens = ListExtend(@, ttype, intron_lens)]
       ELSE cts

\* The transcript length pushed as the length of the transcript row
SpanLenM(tinfo) == tinfo.length

\* span_len = max(ends) - min(starts) + 1, over the exons of the transcript
SpanLen(tinfo) ==
    LET starts == {tinfo.exons_flat[j][1] : j \in 1..Len(tinfo.exons_flat)}
        ends == {tinfo.exons_flat[j][2] : j \in 1..Len(tinfo.exons_flat)}
    IN (CHOOSE e \in ends : \A x \in ends : x <= e)
         - (CHOOSE b \in starts : \A x \in starts : b <= x) + 1

AggregateTranscript(cts, category, tinfo) ==
    IF ~IsCounted(tinfo) THEN cts
    ELSE
    LET ttype == tinfo.type
        exon_count == Len(tinfo.exons_lengths)
        c0 == [cts EXCEPT
                 !.per_gene_type_counts =
                     DictPut(@, tinfo.gene_id,
                             Incr(DictGet(@, tinfo.gene_id, <<>>), ttype)),
                 !.type_transcripts = Incr(@, ttype),
                 !.type_span_lens = ListExtend(@, ttype, <<SpanLen(tinfo)>>),
                 !.transcript_lengths = Append(@, SpanLen(tinfo)),
                 !.type_exon_counts = ListExtend(@, ttype, <<exon_count>>),
                 !.type_concat_exon_lens =
                     ListExtend(@, ttype, <<tinfo.exon_len_sum>>),
                 !.type_exon_lens = ListExtend(@, ttype, tinfo.exons_lengths)]
        c1 == AggregateIntrons(c0, ttype, tinfo)
    IN IF tinfo.cds_count > 0 /\ HasCdsKeys(category)
       THEN [c1 EXCEPT
               !.type_cds_counts = ListExtend(@, ttype, <<tinfo.cds_count>>),
               !.type_concat_cds_lens =
                   ListExtend(@, ttype, <<tinfo.cds_len_sum>>),
               !.type_cds_lens = ListExtend(@, ttype, tinfo.cds_lengths)]
       ELSE c1

(***************************************************************************)
(* build_category and the returned mapping                                 *)
(***************************************************************************)

RECURSIVE SumOver(_, _)
SumOver(f, S) ==
    IF S = {} THEN 0
    ELSE LET k == CHOOSE x \in S : TRUE
         IN f[k] + SumOver(f, S \ {k})

\* child_totals[ctype] += cnt over per_gene_type_counts
ChildTotals(per_gene_type_counts) ==
    LET types == UNION {DOMAIN per_gene_type_counts[g] :
                            g \in DOMAIN per_gene_type_counts}
    IN [ctype \in types |->
           SumOver([g \in DOMAIN per_gene_type_counts |->
                       DictGet(per_gene_type_counts[g], ctype, 0)],
                   DOMAIN per_gene_type_counts)]

\* One feature block: absent (the empty mapping) when counts_list is empty.
\* length and length_concatenated hold the lists that are summarised.
FeatureBlock(counts_list, lens_list, concat_list) ==
    IF counts_list = <<>> THEN <<>>
    ELSE [count |-> SeqSum(counts_list),
          length |-> lens_list,
          length_concatenated |-> concat_list]

\* build_category without the early return for a category without gene
build_categoryM(gene_lengths, cts) ==
    [count |-> Len(gene_lengths),
     length |-> gene_lengths,
     transcripts |->
       [count |-> SumOver(cts.type_transcripts, DOMAIN cts.type_transcripts),
        length |-> cts.transcript_lengths,
        by_type |-> <<>>]]

build_category(gene_lengths, cts) ==
    IF gene_lengths = <<>> THEN <<>>
    ELSE
    LET child_totals == ChildTotals(cts.per_gene_type_counts)
    IN [count |-> Len(gene_lengths),
        length |-> gene_lengths,
        transcripts |->
          [count |-> SumOver(cts.type_transcripts, DOMAIN cts.type_transcripts),
           length |-> cts.transcript_lengths,
           by_type |->
             [ctype \in DOMAIN child_totals |->
                [count |-> child_totals[ctype],
                 length |-> DictGet(cts.type_span_lens, ctype, <<>>),
                 features |->
                   [exon |-> FeatureBlock(
                                DictGet(cts.type_exon_counts, ctype, <<>>),
                                DictGet(cts.type_exon_lens, ctype, <<>>),
                                DictGet(cts.type_concat_exon_lens, ctype, <<>>)),
                    intron |-> FeatureBlock(
                                DictGet(cts.type_intron_counts, ctype, <<>>),
                                DictGet(cts.type_intron_lens, ctype, <<>>),
                                DictGet(cts.type_concat_intron_lens, ctype, <<>>)),
                    cds |-> FeatureBlock(
                                DictGet(cts.type_cds_counts, ctype, <<>>),
                                DictGet(cts.type_cds_lens, ctype, <<>>),
                                DictGet(cts.type_concat_cds_lens, ctype, <<>>))]]]]]

BuildReport(lengths, stats) ==
    [coding_genes |-> build_category(lengths["coding"], stats["coding"]),
     long_non_coding_genes |->
         build_category(lengths["long_non_coding"], stats["long_non_coding"]),
     short_non_coding_genes |->
         build_category(lengths["short_non_coding"], stats["short_non_coding"]),
     pseudogenes |-> build_category(lengths["pseudogene"], stats["pseudogene"])]

(***************************************************************************)
(* Input files.  Feature ids are unique within a file, LazyThenRow apart,   *)
(* and an exon or CDS lies within its transcript and its gene.             *)
(***************************************************************************)

\* The largest number of 50 bp exons of the transcript of a classification
\* file.
MaxExons == 2

BT_lncRNA == <<"l","n","c","R","N","A">>
BT_Protein_Coding ==
    <<"P","r","o","t","e","i","n","_","C","o","d","i","n","g">>
BT_protein_coding_LoF == PROTEIN_CODING \o <<"_","L","o","F">>

Biotypes ==
    {NoBiotype, PROTEIN_CODING, BT_Protein_Coding, BT_protein_coding_LoF,
     BT_lncRNA}

GeneTypes == {"gene", "pseudogene"}
GeneLens == {200, 201, 1000}

\* The exon lengths of the one transcript of a classification file.
ExonConfigs(glen) ==
    {[i \in 1..n |-> 50] : n \in 0..MaxExons}
      \cup {<<len>> : len \in {l \in {200, 201} : l <= glen}}

\* One gene, one transcript, its exons one after the other and, with cds,
\* one CDS segment.
ClassifyFile(gtype, biotype, glen, exons, cds) ==
    <<Row("g1", gtype, 1, glen, <<>>, biotype),
      Row("t1", "mRNA", 1, glen, <<"g1">>, NoBiotype)>>
    \o [i \in 1..Len(exons) |->
          LET start == 1 + SeqSum(SubSeq(exons, 1, i - 1))
          IN Row("e" \o ToString(i), "exon", start, start + exons[i] - 1,
                 <<"t1">>, NoBiotype)]
    \o (IF cds THEN <<Row("c1", "CDS", 1, 50, <<"t1">>, NoBiotype)>>
        ELSE <<>>)

ClassifyFiles ==
    UNION {{ClassifyFile(gtype, biotype, glen, exons, cds) :
                gtype \in GeneTypes, biotype \in Biotypes,
                exons \in ExonConfigs(glen), cds \in BOOLEAN} :
           glen \in GeneLens}

\* Seed scenario 1 of the specification.
Seed1 ==
    <<Row("g1", "gene", 1000, 2000, <<>>, PROTEIN_CODING),
      Row("t1", "mRNA", 1000, 2000, <<"g1">>, NoBiotype),
      Row("e1", "exon", 1000, 1200, <<"t1">>, NoBiotype),
      Row("e2", "exon", 1500, 2000, <<"t1">>, NoBiotype),
      Row("c1", "CDS", 1050, 1200, <<"t1">>, NoBiotype)>>

\* An exon shared by two transcripts of one gene.
MultiLeaf ==
    <<Row("g1", "gene", 1, 1000, <<>>, BT_lncRNA),
      Row("t1", "lnc_RNA", 1, 1000, <<"g1">>, NoBiotype),
      Row("t2", "lnc_RNA", 1, 500, <<"g1">>, NoBiotype),
      Row("e1", "exon", 1, 100, <<"t1", "t2">>, NoBiotype)>>

\* A transcript that lists a gene and a transcript of another gene.
MixedParents ==
    <<Row("g1", "gene", 1, 1000, <<>>, NoBiotype),
      Row("g2", "gene", 2001, 2100, <<>>, NoBiotype),
      Row("x", "mRNA", 2001, 2100, <<"g2">>, NoBiotype),
      Row("t", "mRNA", 1, 1000, <<"g1", "x">>, NoBiotype),
      Row("e1", "exon", 1, 50, <<"t">>, NoBiotype),
      Row("e2", "exon", 101, 150, <<"t">>, NoBiotype)>>

\* A parent that never appears and a cycle of two parents.
GhostCycle ==
    <<Row("g1", "gene", 1, 1000, <<>>, PROTEIN_CODING),
      Row("t1", "mRNA", 1, 1000, <<"g1">>, NoBiotype),
      Row("o1", "exon", 1, 100, <<"ghost">>, NoBiotype),
      Row("a", "mRNA", 1, 100, <<"b">>, NoBiotype),
      Row("b", "mRNA", 1, 100, <<"a">>, NoBiotype)>>

\* A gene without exon or CDS next to a coding gene.
NoneGene ==
    <<Row("g1", "gene", 1, 300, <<>>, NoBiotype),
      Row("t1", "mRNA", 1, 300, <<"g1">>, NoBiotype),
      Row("g2", "gene", 1001, 2000, <<>>, PROTEIN_CODING),
      Row("t2", "mRNA", 1001, 2000, <<"g2">>, NoBiotype),
      Row("e1", "exon", 1001, 1100, <<"t2">>, NoBiotype)>>

\* A coding gene one transcript of which has no exon.
ExonlessTranscript ==
    <<Row("g1", "gene", 1, 1000, <<>>, PROTEIN_CODING),
      Row("t1", "mRNA", 1, 1000, <<"g1">>, NoBiotype),
      Row("t2", "mRNA", 1, 500, <<"g1">>, NoBiotype),
      Row("e1", "exon", 1, 100, <<"t1">>, NoBiotype)>>

\* A transcript that lists two genes.
TwoGenes ==
    <<Row("g1", "gene", 1, 1000, <<>>, NoBiotype),
      Row("g2", "gene", 2001, 3000, <<>>, NoBiotype),
      Row("t", "mRNA", 1, 1000, <<"g1", "g2">>, NoBiotype),
      Row("e1", "exon", 1, 100, <<"t">>, NoBiotype)>>

\* A CDS segment shared by two transcripts of one gene.
MultiCds ==
    <<Row("g1", "gene", 1, 1000, <<>>, NoBiotype),
      Row("t1", "mRNA", 1, 1000, <<"g1">>, NoBiotype),
      Row("t2", "mRNA", 1, 500, <<"g1">>, NoBiotype),
      Row("c1", "CDS", 1, 90, <<"t1", "t2">>, NoBiotype)>>

\* The id t on two rows: t is first the child of the transcript x, so
\* that its exon and its CDS make the entry of t, and then a transcript of
\* the gene.
LazyThenRow ==
    <<Row("g1", "gene", 1, 1000, <<>>, NoBiotype),
      Row("x", "mRNA", 1, 1000, <<"g1">>, NoBiotype),
      Row("t", "mRNA", 1, 500, <<"x">>, NoBiotype),
      Row("e1", "exon", 1, 100, <<"t">>, NoBiotype),
      Row("c1", "CDS", 1, 90, <<"t">>, NoBiotype),
      Row("t", "lnc_RNA", 1, 600, <<"g1">>, NoBiotype)>>

\* An exon and a CDS that are direct children of a gene
GeneLeaf ==
    <<Row("g1", "gene", 1, 1000, <<>>, NoBiotype),
      Row("t1", "mRNA", 1, 1000, <<"g1">>, NoBiotype),
      Row("e1", "exon", 1, 100, <<"g1">>, NoBiotype),
      Row("c1", "CDS", 1, 90, <<"g1">>, NoBiotype)>>

PermFiles ==
    {Seed1, MultiLeaf, MixedParents, GhostCycle, NoneGene, ExonlessTranscript,
     TwoGenes, MultiCds, GeneLeaf}

\* A gene f0 and a chain f1, ..., fn of features, each the child of the
\* one before it: one more than the passes of the resolution loop.
ChainLen == max_iterations + 1

ChainFile ==
    <<Row("f0", "gene", 1, 1000, <<>>, NoBiotype)>>
    \o [i \in 1..ChainLen |->
          Row("f" \o ToString(i), "mRNA", 1, 1000,
              <<"f" \o ToString(i - 1)>>, NoBiotype)]

Reverse(s) == [i \in 1..Len(s) |-> s[Len(s) + 1 - i]]

\* The row orders of a file
Orders(file) ==
    {[i \in 1..Len(file) |-> file[p[i]]] :
        p \in {q \in [1..Len(file) -> 1..Len(file)] :
                  \A i, j \in 1..Len(file) : q[i] = q[j] => i = j}}

Files == PermFiles \cup ClassifyFiles \cup {ChainFile, LazyThenRow}

\* The row orders a file is read in: every order of the small files, the
\* order as written and its reverse of the others.
InputsOf(file) ==
    IF file \in PermFiles THEN Orders(file) ELSE {file, Reverse(file)}

(***************************************************************************)
(* Sources and streams.  A source is local or remote, gzipped or plain;    *)
(* its state is "ok", "missing" (no regular file at the path, no answer    *)
(* from the server) or, for a remote source, "status" (the server answers  *)
(* with an error status).  A stream is what iterating the opened source    *)
(* gives: lines, and points where the iterator raises.                     *)
(***************************************************************************)

Source(remote, gzipped, state) ==
    [remote |-> remote, gzipped |-> gzipped, state |-> state]

Sources ==
    {Source(remote, gzipped, state) :
        remote \in BOOLEAN, gzipped \in BOOLEAN, state \in {"ok", "missing"}}
      \cup {Source(TRUE, gzipped, "status") : gzipped \in BOOLEAN}

LocalPlain == Source(FALSE, FALSE, "ok")

Item(cols) == [raises |-> FALSE, cols |-> cols]

\* A point of the stream where reading the next line raises
ReadFails == [raises |-> TRUE, cols |-> Cols("", <<>>, <<>>, <<>>)]

LinesOf(rows) == [i \in 1..Len(rows) |-> Item(LineOf(rows[i]))]

\* Rows of the skip-set: well-formed, with an attribute without '=', with
\* a start that is no integer.
SkipRow ==
    Cols("region", FormatInt(1), FormatInt(5000), <<<<"ID", "chr1">>>>)
SkipRowBadAttr ==
    Cols("chromosome", FormatInt(1), FormatInt(5000),
         <<<<"ID", "chr1">>, <<"note">>>>)
SkipRowBadStart ==
    Cols("scaffold", <<"x">>, FormatInt(5000), <<<<"ID", "s1">>>>)

SkipRows == {SkipRow, SkipRowBadAttr, SkipRowBadStart}

\* Malformed rows of a type outside the skip-set
BadAttrRow ==
    Cols("exon", FormatInt(1000), FormatInt(1100),
         <<<<"ID", "m1">>, <<"Parent", <<"t1">>>>, <<"note">>>>)
TwoEqualsRow ==
    Cols("exon", FormatInt(1000), FormatInt(1100),
         <<<<"ID", "m1">>, <<"Note", "a", "b">>>>)
BadStartRow ==
    Cols("exon", <<"x">>, FormatInt(1100),
         <<<<"ID", "m1">>, <<"Parent", <<"t1">>>>>>)
BadEndRow ==
    Cols("exon", FormatInt(1000), <<"1", ".", "5">>,
         <<<<"ID", "m1">>, <<"Parent", <<"t1">>>>>>)
EmptyAttrRow ==
    Cols("exon", FormatInt(1000), FormatInt(1100), <<>>)

MalformedRows ==
    {BadAttrRow, TwoEqualsRow, BadStartRow, BadEndRow, EmptyAttrRow}

\* An exon whose parent appears in no file
GhostRow == Row("gx", "exon", 1, 10, <<"ghost2">>, NoBiotype)

\* Rows whose end is before their start: a gene and an exon of t1
InvertedGene ==
    Cols("gene", FormatInt(3100), FormatInt(3000), <<<<"ID", "gi">>>>)
InvertedExon ==
    Cols("exon", FormatInt(1100), FormatInt(1000),
         <<<<"ID", "ei">>, <<"Parent", <<"t1">>>>>>)

InvertedRows == {InvertedGene, InvertedExon}

\* Rows with neither an ID nor a Parent attribute: a gene and an exon
NoIdGene ==
    Cols("gene", FormatInt(4000), FormatInt(4999),
         <<<<"biotype", PROTEIN_CODING>>>>)
NoIdExon ==
    Cols("exon", FormatInt(1000), FormatInt(1100), <<<<"Name", "n1">>>>)

NoIdRows == {NoIdGene, NoIdExon}

ExtraItems ==
    {Item(cols) : cols \in SkipRows \cup MalformedRows \cup InvertedRows
                              \cup NoIdRows \cup {LineOf(GhostRow)}}
      \cup {ReadFails}

NoExtra == [at |-> 0, item |-> <<>>]

\* The files that are also read from every source and with one more item
\* at any place of the stream
FaultFiles == {Seed1, GhostCycle}

SourcesOf(rows) == IF rows \in FaultFiles THEN Sources ELSE {LocalPlain}

ExtrasOf(rows, src) ==
    {NoExtra} \cup
      (IF rows \in FaultFiles /\ src.state = "ok"
       THEN {[at |-> k, item |-> x] :
                k \in 1..(Len(rows) + 1), x \in ExtraItems}
       ELSE {})

\* The lines of rows, with the extra item before the line at its place
StreamOf(rows, x) ==
    IF x.at = 0 THEN LinesOf(rows)
    ELSE SubSeq(LinesOf(rows), 1, x.at - 1) \o <<x.item>>
           \o SubSeq(LinesOf(rows), x.at, Len(rows))

(***************************************************************************)
(* cli.py: the arguments of main.  output is "none" without --output,      *)
(* "file" for a path that can be opened for writing and "unwritable" for   *)
(* one where open raises.                                                  *)
(***************************************************************************)

Args(cli, output, pretty) == [cli |-> cli, output |-> output, pretty |-> pretty]

\* compute_gff_stats called from other code, not by main
LibraryCall == Args(FALSE, "none", FALSE)

CliArgs ==
    {Args(TRUE, output, pretty) :
        output \in {"none", "file", "unwritable"}, pretty \in BOOLEAN}

\* A gene without exon or CDS: the report has four empty categories
NoGeneReported ==
    <<Row("g1", "gene", 1, 200, <<>>, NoBiotype),
      Row("t1", "mRNA", 1, 200, <<"g1">>, NoBiotype)>>

\* The files main is run on, from every source, as they are and with one
\* more item at the head of the stream
CliFiles == {Seed1, NoGeneReported}

ArgsOf(rows, x) ==
    {LibraryCall} \cup (IF rows \in CliFiles /\ x.at <= 1 THEN CliArgs ELSE {})

(***************************************************************************)
(* State of one run of compute_gff_stats                                   *)
(***************************************************************************)

VARIABLES
    base,              \* the file, in the order it was written down
    input,             \* the rows in the order they are read
    source,            \* where the file is read from
    extra,             \* the item added to the lines of input, if any
    stream,            \* what iterating the source gives
    pos,               \* index of the next item of stream
    file_obj,          \* "none", "open", "closed"
    gzip_file,         \* the GzipFile around file_obj: "none", "open", "closed"
    closed_order,      \* the handles closed so far, in the order of closing
    exception,         \* the exception the run has raised, or "none"
    roots, roots_keys,
    id_to_root,
    transcripts, transcripts_keys,
    orphans,
    pc,                \* "start", "read", "loop", "resolve", "classify",
                       \* "aggregate", "done", "failed", "raised"
    iteration, prev_count,
    idx, still_orphaned,   \* resolve_orphans: position in orphans, result
    root_to_category,
    cat_gene_lengths,
    cat_type_stats,
    tpos,              \* position in transcripts.values()
    visits,            \* how often the aggregator has visited each transcript
    report,
    run,               \* the number of the invocation
    first,             \* how the first invocation ended and what it returned
    args,              \* the arguments of main, or LibraryCall
    exit_status,       \* of the process of main: NoExit while it runs
    stdout, stderr,    \* what main has written to them
    output_file,       \* what main has written to the --output file
    submitted          \* how often resolve_orphans has handed each orphan
                       \* to process_feature

fileVars == <<base, input, source, extra, stream>>
handleVars == <<file_obj, gzip_file, closed_order>>
tableVars == <<roots, roots_keys, id_to_root, transcripts, transcripts_keys>>
loopVars == <<iteration, prev_count, idx, still_orphaned>>
statVars == <<root_to_category, cat_gene_lengths, cat_type_stats, tpos,
              visits, report>>
runVars == <<run, first>>
mainVars == <<args, exit_status, stdout, stderr, output_file>>
vars == <<fileVars, pos, handleVars, exception, tableVars, orphans, pc,
          loopVars, statVars, runVars, mainVars, submitted>>

TB == Tables(roots, roots_keys, id_to_root, transcripts, transcripts_keys)

SetTables(tb) ==
    /\ roots' = tb.roots
    /\ roots_keys' = tb.roots_keys
    /\ id_to_root' = tb.id_to_root
    /\ transcripts' = tb.transcripts
    /\ transcripts_keys' = tb.transcripts_keys

Handles(f, g, order) == [file_obj |-> f, gzip_file |-> g, closed_order |-> order]

H == Handles(file_obj, gzip_file, closed_order)

SetHandles(h) ==
    /\ file_obj' = h.file_obj
    /\ gzip_file' = h.gzip_file
    /\ closed_order' = h.closed_order

EmptyTables == Tables(<<>>, <<>>, <<>>, <<>>, <<>>)

EmptyGeneLengths == [c \in Categories |-> <<>>]

\* The process of main is running
NoExit == -1

\* Nothing has been written to the --output file
NoFile == <<>>

\* The number of invocations of compute_gff_stats in one process
Runs == 2

\* The tables of an invocation that finds those of the one before it
LocalsAtEntryM(tb) == tb

\* roots = {}, id_to_root = {}, transcripts = {}: the tables are locals of
\* the invocation, whatever an earlier invocation has left
LocalsAtEntry(tb) == EmptyTables

\* The state of the locals when compute_gff_stats is entered
Entry ==
    /\ pos = 1
    /\ file_obj = "none" /\ gzip_file = "none" /\ closed_order = <<>>
    /\ exception = "none"
    /\ orphans = <<>>
    /\ pc = "start"
    /\ iteration = 0 /\ prev_count = 0
    /\ idx = 1 /\ still_orphaned = <<>>
    /\ root_to_category = <<>>
    /\ cat_gene_lengths = EmptyGeneLengths
    /\ cat_type_stats = InitCatTypeStats
    /\ tpos = 1
    /\ visits = <<>>
    /\ report = <<>>

Init ==
    /\ base \in Files
    /\ input \in InputsOf(base)
    /\ source \in SourcesOf(input)
    /\ extra \in ExtrasOf(input, source)
    /\ stream = StreamOf(input, extra)
    /\ roots = <<>> /\ roots_keys = <<>>
    /\ id_to_root = <<>>
    /\ transcripts = <<>> /\ transcripts_keys = <<>>
    /\ Entry
    /\ run = 1
    /\ first = <<>>
    /\ args \in ArgsOf(input, extra)
    /\ exit_status = NoExit
    /\ stdout = <<>> /\ stderr = <<>>
    /\ output_file = NoFile
    /\ submitted = <<>>

\* The exceptions of the model; all of them are subclasses of Exception.
Exceptions ==
    {"FileNotFoundError", "RequestException", "HTTPError", "OSError",
     "EOFError", "ValueError"}

\* A handler for the exceptions of opening and reading only
CaughtM(exc) ==
    exc \in {"FileNotFoundError", "RequestException", "HTTPError", "OSError",
             "EOFError"}

\* except Exception as e
Caught(exc) == exc \in Exceptions

\* The exception handler: return {}; an exception that is not caught
\* leaves compute_gff_stats.
Handler(exc) ==
    /\ exception' = exc
    /\ pc' = IF Caught(exc) THEN "failed" ELSE "raised"
    /\ report' = <<>>

\* gff_file_cm.__exit__: a GzipFile closes itself and leaves the file
\* object it was given open; without GzipFile the file object closes.
WithExit(h) ==
    IF h.gzip_file = "open"
    THEN [h EXCEPT !.gzip_file = "closed",
                   !.closed_order = Append(@, "gzip_file")]
    ELSE IF h.file_obj = "open"
    THEN [h EXCEPT !.file_obj = "closed",
                   !.closed_order = Append(@, "file_obj")]
    ELSE h

\* if file_needs_closing and hasattr(file_obj, "close"): file_obj.close()
ExplicitClose(src, h) ==
    IF ~src.remote /\ ~src.gzipped /\ h.file_obj = "open"
    THEN [h EXCEPT !.file_obj = "closed",
                   !.closed_order = Append(@, "file_obj")]
    ELSE h

\* The exception of a source that cannot be opened
OpenError(src) ==
    IF src.state = "status" THEN "HTTPError"
    ELSE IF src.remote THEN "RequestException"
    ELSE "FileNotFoundError"

\* The exceptions reading a line can raise
ReadErrors(src) ==
    IF src.gzipped THEN {"OSError", "EOFError"} ELSE {"OSError"}

\* requests.get / open, the gzip detection and the entry into the with
\* block.  With an error status the response is there when
\* raise_for_status raises.
OpenSource ==
    /\ pc = "start"
    /\ IF source.state = "ok"
       THEN /\ file_obj' = "open"
            /\ gzip_file' = IF source.gzipped THEN "open" ELSE "none"
            /\ pc' = "read"
            /\ UNCHANGED <<closed_order, exception, report>>
       ELSE /\ file_obj' = IF source.state = "status" THEN "open" ELSE "none"
            /\ Handler(OpenError(source))
            /\ UNCHANGED <<gzip_file, closed_order>>
    /\ UNCHANGED <<fileVars, pos, tableVars, orphans, loopVars,
                   root_to_category, cat_gene_lengths, cat_type_stats, tpos,
                   visits, runVars,
                   mainVars, submitted>>

\* The loop body that puts no row on the orphans list
DeferredM(orphan_list, row, processed) ==
    orphan_list

\* if not processed and parent_ids: orphans.append(...)
Deferred(orphan_list, row, processed) ==
    IF ~processed /\ row.parents # <<>> THEN Append(orphan_list, row)
    ELSE orphan_list

\* The element of a set of one element
Only(S) == CHOOSE x \in S : TRUE

\* The loop body after parse_gff_line_fast has returned p, or has raised
\* (p.ok is FALSE): process_feature and the orphans list
IngestParsed(tb, orphan_list, p) ==
    IF ~p.ok
    THEN [ok |-> FALSE, tb |-> tb, orphans |-> orphan_list]
    ELSE LET r == process_feature(tb, p.feature_id, p.feature_type,
                                  p.start, p.end, p.length, p.parent_ids,
                                  p.biotype)
             row == Row(p.feature_id, p.feature_type, p.start, p.end,
                        p.parent_ids, p.biotype)
         IN [ok |-> TRUE, tb |-> r.tb,
             orphans |-> Deferred(orphan_list, row, r.processed)]

\* The row parsed first and the skip-set looked at after it
IngestLineM(tb, orphan_list, cols) ==
    Only({IF p.ok /\ cols.type \in SKIP_FEATURES
          THEN [ok |-> TRUE, tb |-> tb, orphans |-> orphan_list]
          ELSE IngestParsed(tb, orphan_list, p) :
             p \in {parse_gff_line_fast(cols)}})

\* The body of `for line_bytes in gff_file` for the columns of one line;
\* ok is FALSE when parse_gff_line_fast raises.
IngestLine(tb, orphan_list, cols) ==
    IF cols.type \in SKIP_FEATURES
    THEN [ok |-> TRUE, tb |-> tb, orphans |-> orphan_list]
    ELSE Only({IngestParsed(tb, orphan_list, p) :
                  p \in {parse_gff_line_fast(cols)}})

\* One pass of `for line_bytes in gff_file` that raises nothing
ReadRow ==
    /\ pc = "read"
    /\ pos <= Len(stream)
    /\ ~stream[pos].raises
    /\ \E r \in {IngestLine(TB, orphans, stream[pos].cols)} :
          /\ r.ok
          /\ SetTables(r.tb)
          /\ orphans' = r.orphans
    /\ pos' = pos + 1
    /\ UNCHANGED <<fileVars, handleVars, exception, pc, loopVars, statVars,
                   runVars,
                   mainVars, submitted>>

\* One pass of the loop that raises, in the iterator or in
\* parse_gff_line_fast: the with block is left and the handler runs.
ReadError ==
    /\ pc = "read"
    /\ pos <= Len(stream)
    /\ \E exc \in (IF stream[pos].raises THEN ReadErrors(source)
                   ELSE IF IngestLine(TB, orphans, stream[pos].cols).ok
                   THEN {}
                   ELSE {"ValueError"}) :
          Handler(exc)
    /\ SetHandles(WithExit(H))
    /\ UNCHANGED <<fileVars, pos, tableVars, orphans, loopVars,
                   root_to_category, cat_gene_lengths, cat_type_stats, tpos,
                   visits, runVars,
                   mainVars, submitted>>

\* End of the stream: the with block is left, the file object of a local
\* uncompressed file is closed, then `if orphans:`
EndOfStream ==
    /\ pc = "read"
    /\ pos > Len(stream)
    /\ SetHandles(ExplicitClose(source, WithExit(H)))
    /\ pc' = IF orphans # <<>> THEN "loop" ELSE "classify"
    /\ iteration' = 0
    /\ UNCHANGED <<fileVars, pos, exception, tableVars, orphans, prev_count,
                   idx, still_orphaned, statVars, runVars,
                   mainVars, submitted>>

\* while orphans and iteration < max_iterations
WhileTest(orphan_list, iter) ==
    orphan_list # <<>> /\ iter < max_iterations

\* The head of the while loop and the entry into resolve_orphans.
LoopHead ==
    /\ pc = "loop"
    /\ IF WhileTest(orphans, iteration)
       THEN /\ iteration' = iteration + 1
            /\ prev_count' = Len(orphans)
            /\ idx' = 1
            /\ still_orphaned' = <<>>
            /\ pc' = "resolve"
       ELSE /\ pc' = "classify"
            /\ UNCHANGED loopVars
    /\ UNCHANGED <<fileVars, pos, handleVars, exception, tableVars, orphans,
                   statVars, runVars,
                   mainVars, submitted>>

\* resolve_orphans: the body of `for orphan in orphans`
ResolveStep ==
    /\ pc = "resolve"
    /\ idx <= Len(orphans)
    /\ LET orphan == orphans[idx]
           r == ResolveOne(TB, orphan)
       IN /\ SetTables(r.tb)
          /\ still_orphaned' = StillOrphaned(still_orphaned, orphan,
                                             r.processed)
          /\ submitted' = Incr(submitted, orphan)
    /\ idx' = idx + 1
    /\ UNCHANGED <<fileVars, pos, handleVars, exception, orphans, pc,
                   iteration, prev_count, statVars, runVars,
                   mainVars>>

\* resolve_orphans returns; if prev_count == len(orphans): break
ResolveEnd ==
    /\ pc = "resolve"
    /\ idx > Len(orphans)
    /\ orphans' = still_orphaned
    /\ pc' = IF prev_count = Len(still_orphaned) THEN "classify" ELSE "loop"
    /\ UNCHANGED <<fileVars, pos, handleVars, exception, tableVars, loopVars,
                   statVars, runVars,
                   mainVars, submitted>>

\* categorize_roots and the per-category gene lengths
Categorize ==
    /\ pc = "classify"
    /\ root_to_category' = categorize_roots(roots)
    /\ cat_gene_lengths' =
           GeneLengths(EmptyGeneLengths, roots, root_to_category', roots_keys)
    /\ cat_type_stats' = InitCatTypeStats
    /\ tpos' = 1
    /\ pc' = "aggregate"
    /\ UNCHANGED <<fileVars, pos, handleVars, exception, tableVars, orphans,
                   loopVars, visits, report, runVars,
                   mainVars, submitted>>

\* The body of `for tinfo in transcripts.values()`
AggregateStep ==
    /\ pc = "aggregate"
    /\ tpos <= Len(transcripts_keys)
    /\ LET tid == transcripts_keys[tpos]
           tinfo == transcripts[tid]
           category == get_category(root_to_category, tinfo.gene_id)
       IN /\ cat_type_stats' =
                 IF category = NoCat THEN cat_type_stats
                 ELSE [cat_type_stats EXCEPT
                          ![category] =
                              AggregateTranscript(@, category, tinfo)]
          /\ visits' = Incr(visits, tid)
    /\ tpos' = tpos + 1
    /\ UNCHANGED <<fileVars, pos, handleVars, exception, tableVars, orphans,
                   pc, loopVars, root_to_category, cat_gene_lengths, report,
                   runVars,
                   mainVars, submitted>>

\* build_category for the four categories and the return
Return ==
    /\ pc = "aggregate"
    /\ tpos > Len(transcripts_keys)
    /\ report' = BuildReport(cat_gene_lengths, cat_type_stats)
    /\ pc' = "done"
    /\ UNCHANGED <<fileVars, pos, handleVars, exception, tableVars, orphans,
                   loopVars, root_to_category, cat_gene_lengths,
                   cat_type_stats, tpos, visits, runVars,
                   mainVars, submitted>>

\* compute_gff_stats is called again, in the same process, on the same
\* source; main calls it once.
Invoke ==
    /\ pc \in {"done", "failed"}
    /\ ~args.cli
    /\ run < Runs
    /\ run' = run + 1
    /\ first' = [pc |-> pc, report |-> report]
    /\ SetTables(LocalsAtEntry(TB))
    /\ pos' = 1
    /\ file_obj' = "none" /\ gzip_file' = "none" /\ closed_order' = <<>>
    /\ exception' = "none"
    /\ orphans' = <<>>
    /\ pc' = "start"
    /\ iteration' = 0 /\ prev_count' = 0
    /\ idx' = 1 /\ still_orphaned' = <<>>
    /\ root_to_category' = <<>>
    /\ cat_gene_lengths' = EmptyGeneLengths
    /\ cat_type_stats' = InitCatTypeStats
    /\ tpos' = 1
    /\ visits' = <<>>
    /\ report' = <<>>
    /\ submitted' = <<>>
    /\ UNCHANGED <<fileVars, mainVars>>

\* if not stats, with a test that is never true
StatsEmptyM(stats) == FALSE

\* if not stats
StatsEmpty(stats) == stats = <<>>

\* json.dumps(stats) / json.dumps(stats, indent=2)
Json(stats, pretty) == [json |-> stats, indent |-> IF pretty THEN 2 ELSE 0]

ErrorLine(text) == [line |-> "Error:", text |-> text]

\* The state of the process when main has ended
Exit(status, out, err, file) ==
    [exit_status |-> status, stdout |-> out, stderr |-> err,
     output_file |-> file]

\* main from the return of compute_gff_stats: an exception that leaves it
\* and the OSError of open(args.output, 'w') end in `except Exception`;
\* sys.exit(1) raises SystemExit, which that handler does not catch.
MainAfterCall(a, raised, stats) ==
    IF raised
    THEN Exit(1, <<>>, <<ErrorLine("exception")>>, NoFile)
    ELSE IF StatsEmpty(stats)
    THEN Exit(1, <<>>, <<ErrorLine("Failed to compute statistics")>>, NoFile)
    ELSE IF a.output = "unwritable"
    THEN Exit(1, <<>>, <<ErrorLine("exception")>>, NoFile)
    ELSE IF a.output = "file"
    THEN Exit(0, <<[line |-> "Statistics written to"]>>, <<>>,
              Json(stats, a.pretty))
    ELSE Exit(0, <<Json(stats, a.pretty)>>, <<>>, NoFile)

\* compute_gff_stats has returned to main, or has raised
Main ==
    /\ args.cli
    /\ exit_status = NoExit
    /\ pc \in {"done", "failed", "raised"}
    /\ \E e \in {MainAfterCall(args, pc = "raised", report)} :
          /\ exit_status' = e.exit_status
          /\ stdout' = e.stdout
          /\ stderr' = e.stderr
          /\ output_file' = e.output_file
    /\ UNCHANGED <<fileVars, pos, handleVars, exception, tableVars, orphans,
                   pc, loopVars, statVars, runVars, args, submitted>>

Next ==
    \/ OpenSource
    \/ ReadRow
    \/ ReadError
    \/ EndOfStream
    \/ LoopHead
    \/ ResolveStep
    \/ ResolveEnd
    \/ Categorize
    \/ AggregateStep
    \/ Return
    \/ Invoke
    \/ Main

Spec == Init /\ [][Next]_vars

\* The run is sequential code: a step that can be taken is taken.
FairSpec == Spec /\ WF_vars(Next)

TypeOK ==
    /\ pc \in {"start", "read", "loop", "resolve", "classify", "aggregate",
               "done", "failed", "raised"}
    /\ pos \in 1..(Len(stream) + 1)
    /\ iteration \in 0..max_iterations
    /\ run \in 1..Runs
    /\ file_obj \in {"none", "open", "closed"}
    /\ gzip_file \in {"none", "open", "closed"}
    /\ exception \in Exceptions \cup {"none"}
    /\ args \in CliArgs \cup {LibraryCall}
    /\ exit_status \in {NoExit, 0, 1}
    /\ DOMAIN roots = Range(roots_keys)
    /\ DOMAIN transcripts = Range(transcripts_keys)

(***************************************************************************)
(* compute_gff_stats as a function of the stream it reads: the same steps  *)
(* as the actions above, folded over the stream.                           *)
(***************************************************************************)

\* for line_bytes in gff_file
RECURSIVE ReadAll(_, _, _, _)
ReadAll(tb, orphan_list, items, i) ==
    IF i > Len(items) THEN [ok |-> TRUE, tb |-> tb, orphans |-> orphan_list]
    ELSE IF items[i].raises
    THEN [ok |-> FALSE, tb |-> tb, orphans |-> orphan_list]
    ELSE LET r == IngestLine(tb, orphan_list, items[i].cols)
         IN IF r.ok THEN ReadAll(r.tb, r.orphans, items, i + 1) ELSE r

RECURSIVE resolve_orphans(_, _, _, _)
resolve_orphans(tb, orphan_list, still, i) ==
    IF i > Len(orphan_list) THEN [tb |-> tb, orphans |-> still]
    ELSE LET r == ResolveOne(tb, orphan_list[i])
         IN resolve_orphans(r.tb, orphan_list,
                            StillOrphaned(still, orphan_list[i], r.processed),
                            i + 1)

\* while orphans and iteration < max_iterations: ... break
RECURSIVE ResolveLoop(_, _, _)
ResolveLoop(tb, orphan_list, iter) ==
    IF WhileTest(orphan_list, iter)
    THEN LET r == resolve_orphans(tb, orphan_list, <<>>, 1)
         IN IF Len(orphan_list) = Len(r.orphans) THEN r
            ELSE ResolveLoop(r.tb, r.orphans, iter + 1)
    ELSE [tb |-> tb, orphans |-> orphan_list]

\* for tinfo in transcripts.values()
RECURSIVE AggregateAll(_, _, _, _)
AggregateAll(stats, tb, rtc, i) ==
    IF i > Len(tb.transcripts_keys) THEN stats
    ELSE LET tinfo == tb.transcripts[tb.transcripts_keys[i]]
             category == get_category(rtc, tinfo.gene_id)
         IN AggregateAll(IF category = NoCat THEN stats
                         ELSE [stats EXCEPT
                                  ![category] =
                                      AggregateTranscript(@, category, tinfo)],
                         tb, rtc, i + 1)

\* The tables and the orphans list at the end of a run over the stream of
\* an available source, and what the run returns
RunOfStream(items) ==
    LET read == ReadAll(EmptyTables, <<>>, items, 1)
        res == ResolveLoop(read.tb, read.orphans, 0)
        rtc == categorize_roots(res.tb.roots)
        lengths == GeneLengths(EmptyGeneLengths, res.tb.roots, rtc,
                               res.tb.roots_keys)
        stats == AggregateAll(InitCatTypeStats, res.tb, rtc, 1)
    IN IF read.ok
       THEN [tb |-> res.tb, orphans |-> res.orphans,
             report |-> BuildReport(lengths, stats)]
       ELSE [tb |-> read.tb, orphans |-> read.orphans, report |-> <<>>]

ReportOfStream(items) == RunOfStream(items).report

\* What compute_gff_stats returns for a file of the rows
compute_gff_stats(rows) == ReportOfStream(LinesOf(rows))

\* The run, step by step, returns what the function returns.
RunIsFunction ==
    pc \in {"done", "failed"} /\ source.state = "ok"
        => report = ReportOfStream(stream)

(***************************************************************************)
(* Properties                                                              *)
(***************************************************************************)

\* The multiset of the entries of a list
SeqBag(s) == [v \in Range(s) |-> Cardinality({i \in 1..Len(s) : s[i] = v})]

BlockView(block) ==
    IF block = <<>> THEN <<>>
    ELSE [count |-> block.count,
          length |-> SeqBag(block.length),
          length_concatenated |-> SeqBag(block.length_concatenated)]

\* A category of the report up to the order of its lists and of its keys
CategoryView(cat) ==
    IF cat = <<>> THEN <<>>
    ELSE [count |-> cat.count,
          length |-> SeqBag(cat.length),
          by_type |->
            [ctype \in DOMAIN cat.transcripts.by_type |->
               [count |-> cat.transcripts.by_type[ctype].count,
                exon |-> BlockView(cat.transcripts.by_type[ctype].features.exon),
                cds |-> BlockView(cat.transcripts.by_type[ctype].features.cds)]]]

ReportView(rep) ==
    [coding_genes |-> CategoryView(rep.coding_genes),
     long_non_coding_genes |-> CategoryView(rep.long_non_coding_genes),
     short_non_coding_genes |-> CategoryView(rep.short_non_coding_genes),
     pseudogenes |-> CategoryView(rep.pseudogenes)]

\* C1: the report of a file does not depend on the order of its rows: read
\* in any order, the gene count of every category and the multiset of
\* lengths of every (category, transcript type) bucket are those of the
\* file read in the order it was written.
C1_RowOrderIrrelevant ==
    pc = "done" => ReportView(report) = ReportView(compute_gff_stats(base))

\* The rows of the input that list a parent
RowsWithParents == {i \in 1..Len(input) : input[i].parents # <<>>}

InOrphans(row) == \E k \in 1..Len(orphans) : orphans[k] = row

\* The ids whose chain of parents reaches a gene row of the input: the ids
\* of the rows without parent, then, round after round, the ids of the rows
\* that list an id already in the set.
RECURSIVE ReachGene(_)
ReachGene(S) ==
    LET T == S \cup {input[i].id : i \in
                        {j \in RowsWithParents :
                            Range(input[j].parents) \cap S # {}}}
    IN IF T = S THEN S ELSE ReachGene(T)

GeneIds == {input[i].id : i \in {j \in 1..Len(input) : input[j].parents = <<>>}}

\* C2: at the end of the run a row that lists parents is on the orphans
\* list exactly when none of its parents is a key of id_to_root, and every
\* feature whose chain of parents reaches a gene of the input has an
\* id_to_root entry.
C2_UnresolvedIffNoParentKnown ==
    pc = "done" =>
        /\ \A i \in RowsWithParents :
              InOrphans(input[i]) <=>
                  (Range(input[i].parents) \cap DOMAIN id_to_root = {})
        /\ ReachGene(GeneIds) \subseteq DOMAIN id_to_root

\* The rows that list parents none of which ever reaches a gene
Unresolvable ==
    {i \in RowsWithParents :
        Range(input[i].parents) \cap ReachGene(GeneIds) = {}}

\* C3: every run that no exception ends comes to its end with a report,
\* and the rows whose parents never appear or only refer to each other are
\* then on the orphans list; the resolution loop does not run for ever.
C3_ResolutionTerminates ==
    <>(\/ pc = "failed"
       \/ /\ pc = "done"
          /\ report # <<>>
          /\ \A i \in Unresolvable : InOrphans(input[i]))

\* A run has ended with a row whose parent never appears and with two rows
\* that are each other's parent on the orphans list.
C3_Witness ==
    /\ pc = "done"
    /\ report # <<>>
    /\ \E i \in Unresolvable :
          /\ InOrphans(input[i])
          /\ \A j \in 1..Len(input) : input[j].id \notin Range(input[i].parents)
    /\ \E i, j \in Unresolvable :
          /\ i # j
          /\ InOrphans(input[i]) /\ InOrphans(input[j])
          /\ input[i].parents = <<input[j].id>>
          /\ input[j].parents = <<input[i].id>>

\* The rule of the specification for the category cat of a gene info, with
\* is_pc for "the biotype contains protein_coding".
CategoryRule(info, cat, is_pc) ==
    LET pseudo == info.feature_type = "pseudogene"
        coding == info.has_cds \/ is_pc
        long == info.length > 200 \/ info.has_multiple_exons
    IN /\ cat \in Categories \cup {NoCat}
       /\ cat = "pseudogene" <=> pseudo
       /\ cat = "coding" <=> (~pseudo /\ coding)
       /\ cat = "long_non_coding" <=>
              (~pseudo /\ ~coding /\ info.has_exon /\ long)
       /\ cat = "short_non_coding" <=>
              (~pseudo /\ ~coding /\ info.has_exon /\ ~long)
       /\ cat = NoCat <=> (~pseudo /\ ~coding /\ ~info.has_exon)

Categorized == pc \in {"aggregate", "done"}

OwnTranscripts(g) ==
    {t \in DOMAIN transcripts :
        /\ transcripts[t].gene_id = g
        /\ t \in DOMAIN id_to_root
        /\ id_to_root[t] = g}

\* The transcripts that gene_id gives to g and id_to_root to another gene,
\* or the other way round
SplitTranscripts(g) ==
    {t \in DOMAIN transcripts :
        (transcripts[t].gene_id = g) #
            (t \in DOMAIN id_to_root /\ id_to_root[t] = g)}

\* The exon lengths of the transcripts of g, one list per transcript
ExonLists(g) == {transcripts[t].exons_lengths : t \in OwnTranscripts(g)}

ExonTotal(g) ==
    SumOver([t \in OwnTranscripts(g) |-> transcripts[t].exon_count],
            OwnTranscripts(g))

\* Not a pseudogene, no CDS, no protein_coding biotype, and no transcript
\* shared with another gene
PlainNonCoding(g) ==
    /\ roots[g].feature_type # "pseudogene"
    /\ ~roots[g].has_cds
    /\ ~Contains(PROTEIN_CODING, Lower(roots[g].biotype))
    /\ SplitTranscripts(g) = {}

ReportKey(cat) ==
    CASE cat = "coding" -> "coding_genes"
      [] cat = "long_non_coding" -> "long_non_coding_genes"
      [] cat = "short_non_coding" -> "short_non_coding_genes"
      [] cat = "pseudogene" -> "pseudogenes"

\* The gene count of a category of the report
ReportGeneCount(cat) ==
    IF report[ReportKey(cat)] = <<>> THEN 0 ELSE report[ReportKey(cat)].count

\* The sum of the transcript counts of the types of a category of the report
ReportTranscriptCount(cat) ==
    IF report[ReportKey(cat)] = <<>> THEN 0
    ELSE LET by_type == report[ReportKey(cat)].transcripts.by_type
         IN SumOver([ctype \in DOMAIN by_type |-> by_type[ctype].count],
                    DOMAIN by_type)

GenesOf(cat) == {g \in DOMAIN roots : root_to_category[g] = cat}

\* C6: a gene of category none is in no category's gene count or gene
\* length list, and in no category is a transcript counted for it: the
\* counts and the lists are those of the genes that have a category.
C6_NoneGeneNotReported ==
    pc = "done" =>
        /\ \A cat \in Categories :
              /\ Len(cat_gene_lengths[cat]) = Cardinality(GenesOf(cat))
              /\ ReportGeneCount(cat) = Cardinality(GenesOf(cat))
              /\ DOMAIN cat_type_stats[cat].per_gene_type_counts
                     \subseteq GenesOf(cat)
              /\ ReportTranscriptCount(cat) =
                     Cardinality({t \in DOMAIN transcripts :
                                     /\ transcripts[t].gene_id \in GenesOf(cat)
                                     /\ IsCounted(transcripts[t])})

\* The aggregator has visited a transcript with exons and a type whose
\* gene has category none, and the report has been built.
C6_Witness ==
    /\ pc = "done"
    /\ \E t \in DOMAIN transcripts :
          /\ transcripts[t].gene_id \in GenesOf(NoCat)
          /\ transcripts[t].exons_lengths # <<>>
          /\ transcripts[t].type # NoType
          /\ DictGet(visits, t, 0) = 1

\* C7: every transcript entry has as many exon lengths as exon_count and
\* as many CDS lengths as cds_count.
C7_CountsMatchLists ==
    \A t \in DOMAIN transcripts :
        /\ Len(transcripts[t].exons_lengths) = transcripts[t].exon_count
        /\ Len(transcripts[t].cds_lengths) = transcripts[t].cds_count

\* A transcript has two exons and a CDS segment, put there from the
\* orphans list.
C7_Witness ==
    /\ pc = "resolve"
    /\ \E t \in DOMAIN transcripts :
          /\ transcripts[t].exon_count = 2
          /\ transcripts[t].cds_count = 1

\* C8: every transcript entry has exon_len_sum the sum of its exon lengths
\* and cds_len_sum the sum of its CDS lengths.
C8_SumsMatchLists ==
    \A t \in DOMAIN transcripts :
        /\ SeqSum(transcripts[t].exons_lengths) = transcripts[t].exon_len_sum
        /\ SeqSum(transcripts[t].cds_lengths) = transcripts[t].cds_len_sum

\* A transcript has exons of lengths 201 and 501 and a CDS of length 151.
C8_Witness ==
    \E t \in DOMAIN transcripts :
        /\ SeqBag(transcripts[t].exons_lengths) = SeqBag(<<201, 501>>)
        /\ transcripts[t].exon_len_sum = 702
        /\ transcripts[t].cds_lengths = <<151>>
        /\ transcripts[t].cds_len_sum = 151

\* C9: a gene has has_multiple_exons exactly when a transcript entry with
\* that gene_id has two or more exons.
C9_MultipleExonsIffTranscript ==
    \A g \in DOMAIN roots :
        roots[g].has_multiple_exons <=>
            \E t \in DOMAIN transcripts :
                /\ transcripts[t].gene_id = g
                /\ transcripts[t].exon_count >= 2

\* C10: the aggregator visits no transcript twice and the transcript counts
\* of all (category, transcript type) buckets add up to the number of
\* transcript entries whose gene has a category, those without exon
\* included.
C10_CountsAllCategorizedTranscripts ==
    /\ \A t \in DOMAIN visits : visits[t] <= 1
    /\ pc = "done" =>
          SumOver([cat \in Categories |-> ReportTranscriptCount(cat)],
                  Categories)
            = Cardinality({t \in DOMAIN transcripts :
                              get_category(root_to_category,
                                           transcripts[t].gene_id) # NoCat})

\* The transcript entries of a (category, transcript type) bucket
Bucket(cat, ttype) ==
    {t \in DOMAIN transcripts :
        /\ get_category(root_to_category, transcripts[t].gene_id) = cat
        /\ transcripts[t].type = ttype}

\* The report has the block feature under the type ttype of category cat
HasBlock(cat, ttype, feature) ==
    /\ report[ReportKey(cat)] # <<>>
    /\ ttype \in DOMAIN report[ReportKey(cat)].transcripts.by_type
    /\ report[ReportKey(cat)].transcripts.by_type[ttype].features[feature]
           # <<>>

TranscriptTypes ==
    {transcripts[t].type : t \in DOMAIN transcripts} \ {NoType}

\* C11: in every category and for every transcript type the report has a
\* cds block exactly when a transcript of that bucket has cds_count > 0,
\* and an intron block exactly when a transcript of that bucket has
\* exon_count > 1; so a coding gene's transcript with CDS segments and no
\* exon gives a cds block and no intron block, and a pseudogene's
\* transcript with CDS children gives a cds block.
C11_BlocksIffCounts ==
    pc = "done" =>
        \A cat \in Categories : \A ttype \in TranscriptTypes :
            /\ HasBlock(cat, ttype, "cds") <=>
                   \E t \in Bucket(cat, ttype) : transcripts[t].cds_count > 0
            /\ HasBlock(cat, ttype, "intron") <=>
                   \E t \in Bucket(cat, ttype) : transcripts[t].exon_count > 1

ReportKeys ==
    {"coding_genes", "long_non_coding_genes", "short_non_coding_genes",
     "pseudogenes"}

Ended == pc \in {"done", "failed", "raised"}

\* The stream has one more item than the lines of input, out of the set S
ExtraIn(S) == extra.at # 0 /\ extra.item \in S

MalformedItems == {Item(cols) : cols \in MalformedRows}

\* The source cannot be opened, or reading the stream raises at some
\* point, or a line of the stream makes parse_gff_line_fast raise
Fatal ==
    \/ source.state # "ok"
    \/ ExtraIn({ReadFails})
    \/ ExtraIn(MalformedItems)

C14_MalformedRowSkipped ==
    (Ended /\ source.state = "ok" /\ ExtraIn(MalformedItems)) =>
        (pc = "done" /\ report = compute_gff_stats(input))

SkipItems == {Item(cols) : cols \in SkipRows}

\* A pass of the read loop over a row of the skip-set
ReadsSkipRow ==
    /\ pc = "read"
    /\ pos <= Len(stream)
    /\ ~stream[pos].raises
    /\ stream[pos].cols.type \in SKIP_FEATURES

\* C15: a row of type region, chromosome or scaffold is dropped before its
\* attributes are parsed and changes no table, also when its attribute
\* column or its start is malformed: the pass that reads it leaves the
\* tables and the orphans list as they are and the loop goes on, and the
\* run ends with the report of the same input without that row.
C15_SkipRowsDropped ==
    /\ [](ExtraIn(SkipItems) => pc \notin {"failed", "raised"})
    /\ []((pc = "done" /\ ExtraIn(SkipItems)) =>
              report = compute_gff_stats(input))
    /\ [][ReadsSkipRow =>
             /\ UNCHANGED <<tableVars, orphans>>
             /\ pc' = "read" /\ pos' = pos + 1]_vars

\* A run over a stream with a scaffold row whose start is no integer,
\* after a gene and before the end, has returned a report.
C15_Witness ==
    /\ pc = "done"
    /\ ExtraIn({Item(SkipRowBadStart)})
    /\ extra.at \in 2..Len(input)
    /\ report # <<>>
    /\ report = compute_gff_stats(input)

GhostItems == {Item(LineOf(GhostRow))}

\* How often a row is on the orphans list
TimesInOrphans(row) ==
    Cardinality({k \in 1..Len(orphans) : orphans[k] = row})

\* C16: a feature whose Parent ids never appear does not fail the run; it
\* is on the final orphans list, whose length the warning prints, exactly
\* once, the list being one longer than without it; the tables are those
\* of the run without the row, and so is the report.
C16_GhostParentIgnored ==
    /\ ExtraIn(GhostItems) => pc \notin {"failed", "raised"}
    /\ (pc = "done" /\ ExtraIn(GhostItems)) =>
          LET without == RunOfStream(LinesOf(input))
          IN /\ TimesInOrphans(GhostRow) = 1
             /\ Len(orphans) = Len(without.orphans) + 1
             /\ TB = without.tb
             /\ report = without.report

\* A run over a stream with the exon of an unknown parent has returned a
\* report, with that exon and other rows on the orphans list.
C16_Witness ==
    /\ pc = "done"
    /\ ExtraIn(GhostItems)
    /\ TimesInOrphans(GhostRow) = 1
    /\ Len(orphans) > 1
    /\ report # <<>>

\* The row the step ingests: the row at the head of the stream is handed
\* to process_feature by the read loop, an orphan by resolve_orphans.
IngestStep(row) ==
    \/ /\ pc = "read" /\ pos <= Len(stream) /\ pos' = pos + 1
       /\ stream[pos] = Item(LineOf(row))
    \/ /\ pc = "resolve" /\ idx <= Len(orphans) /\ idx' = idx + 1
       /\ orphans[idx] = row

\* The parents of a row that are keys of id_to_root, in listed order
ResolvedParents(row) ==
    SelectSeq(row.parents, LAMBDA parent_id : parent_id \in DOMAIN id_to_root)

\* The rows of the input that list several parents and are no exon or CDS
TranscriptRows ==
    {row \in Range(input) :
        Len(row.parents) > 1 /\ FEATURE_CODES(row.type) = 0}

\* C17: when a transcript row that lists several Parent ids is ingested
\* and the parents that are resolved belong to different genes, gene_id of
\* the transcript entry and id_to_root of the transcript id become the
\* root of the first resolved parent in listed order.
C17_FirstResolvedParentOwns ==
    [][\A row \in TranscriptRows :
          LET resolved == ResolvedParents(row)
          IN (/\ IngestStep(row)
              /\ Cardinality({id_to_root[resolved[k]] :
                                 k \in 1..Len(resolved)}) > 1)
             => /\ id_to_root'[row.id] = id_to_root[resolved[1]]
                /\ row.id \in DOMAIN transcripts' =>
                      transcripts'[row.id].gene_id = id_to_root[resolved[1]]
      ]_vars

\* The rows of the input that are an exon or a CDS and list several
\* parents, no two of them the same
LeafRows ==
    {row \in Range(input) :
        /\ Len(row.parents) > 1
        /\ FEATURE_CODES(row.type) # 0
        /\ Cardinality(Range(row.parents)) = Len(row.parents)}

\* The transcript entry a leaf is added to: the one under the id, or the
\* one made for it
EntryOf(parent_id) ==
    IF parent_id \in DOMAIN transcripts THEN transcripts[parent_id]
    ELSE Transcript(id_to_root[parent_id], NoType)

\* The entry of parent_id has received the leaf once
ReceivedOnce(row, parent_id) ==
    LET old == EntryOf(parent_id)
        new == transcripts'[parent_id]
        length == RowLength(row)
        gene == roots'[id_to_root[parent_id]]
    IN IF row.type = "exon"
       THEN /\ new.exon_count = old.exon_count + 1
            /\ new.exons_lengths = Append(old.exons_lengths, length)
            /\ new.exon_len_sum = old.exon_len_sum + length
            /\ new.cds_count = old.cds_count
            /\ gene.has_exon
       ELSE /\ new.cds_count = old.cds_count + 1
            /\ new.cds_lengths = Append(old.cds_lengths, length)
            /\ new.cds_len_sum = old.cds_len_sum + length
            /\ new.exon_count = old.exon_count
            /\ gene.has_cds

\* The entry of parent_id, if there is one, is as it was
ReceivedNothing(parent_id) ==
    /\ parent_id \in DOMAIN transcripts' <=> parent_id \in DOMAIN transcripts
    /\ parent_id \in DOMAIN transcripts =>
           transcripts'[parent_id] = transcripts[parent_id]

C19_SameInputSameReport ==
    /\ (run > 1 /\ pc = "start") => (TB = EmptyTables /\ orphans = <<>>)
    /\ (run > 1 /\ Ended) => (pc = first.pc /\ report = first.report)
    /\ (Ended /\ source.state = "ok") => report = ReportOfStream(stream)

\* A second invocation has returned the report of the first, which had
\* ended with genes, transcripts and rows left on the orphans list.
C19_Witness ==
    /\ run = 2
    /\ pc = "done"
    /\ first.pc = "done"
    /\ report # <<>>
    /\ report = first.report
    /\ transcripts # <<>>
    /\ orphans # <<>>

\* C20: when a run has returned, normally or through the exception
\* handler, the file or response handle it opened is closed, and when it
\* made a gzip adapter the adapter was closed first and the handle after
\* it.
C20_HandlesReleased ==
    pc \in {"done", "failed"} =>
        /\ file_obj # "open"
        /\ gzip_file # "none" =>
              closed_order = <<"gzip_file", "file_obj">>

\* The report compute_gff_stats returned is what main has written out: on
\* stdout without --output, in the output file with it
WrittenOut ==
    IF args.output = "none"
    THEN \E i \in 1..Len(stdout) :
            "json" \in DOMAIN stdout[i] /\ stdout[i].json = report
    ELSE output_file # NoFile /\ output_file.json = report

ReportOnStdout == \E i \in 1..Len(stdout) : "json" \in DOMAIN stdout[i]

ErrorOnStderr ==
    \E i \in 1..Len(stderr) :
        "line" \in DOMAIN stderr[i] /\ stderr[i].line = "Error:"

\* C21: when main has ended, the exit status is 0 exactly when
\* compute_gff_stats returned a report that is not the empty mapping and
\* the report was written out; when the result is empty or an exception
\* was raised (in compute_gff_stats or by opening the output file) the
\* exit status is 1, stderr has an 'Error:' line and stdout has no report.
C21_ExitStatus ==
    (args.cli /\ exit_status # NoExit) =>
        /\ exit_status \in {0, 1}
        /\ exit_status = 0 <=> (pc = "done" /\ report # <<>> /\ WrittenOut)
        /\ (report = <<>> \/ pc = "raised" \/ args.output = "unwritable")
               => exit_status = 1
        /\ exit_status = 1 => ErrorOnStderr /\ ~ReportOnStdout

\* main has ended with status 1 after a ValueError in the read loop
C21_Witness ==
    /\ args.cli
    /\ exit_status = 1
    /\ exception = "ValueError"
    /\ ErrorOnStderr

\* The numeric fields of the gene and transcript entries
NumericFields ==
    {roots[g].length : g \in DOMAIN roots}
      \cup UNION {{transcripts[t].length, transcripts[t].exon_len_sum,
                   transcripts[t].cds_len_sum, transcripts[t].exon_count,
                   transcripts[t].cds_count}
                    \cup Range(transcripts[t].exons_lengths)
                    \cup Range(transcripts[t].cds_lengths) :
                  t \in DOMAIN transcripts}

\* The values pushed into the intron-length lists
IntronValues ==
    UNION {UNION {Range(cat_type_stats[c].type_intron_lens[ttype]) :
                     ttype \in DOMAIN cat_type_stats[c].type_intron_lens} :
              c \in Categories}

\* C22: in every reachable state every gene length and transcript
\* length, every entry of exons_lengths and cds_lengths, every
\* exon_len_sum and cds_len_sum and every value of an intron-length list
\* is non-negative.
C22_NonNegative ==
    \A n \in NumericFields \cup IntronValues : n >= 0

GeneFlags(info) == <<info.has_exon, info.has_cds, info.has_multiple_exons>>

\* C23: a gene entry is created with has_exon, has_cds and
\* has_multiple_exons false, and no step of a run that keeps the entry
\* changes one of the three from true to false (feature ids are unique in
\* every input).
C23_FlagsMonotone ==
    [][\A g \in DOMAIN roots' :
          IF g \in DOMAIN roots
          THEN \A k \in 1..3 : GeneFlags(roots[g])[k] => GeneFlags(roots'[g])[k]
          ELSE GeneFlags(roots'[g]) = <<FALSE, FALSE, FALSE>>
      ]_vars

\* A third exon has reached a transcript whose gene had has_multiple_exons
\* set by the second, and a CDS has set has_cds.
C23_Witness ==
    \E t \in DOMAIN transcripts :
        /\ transcripts[t].exon_count = 3
        /\ transcripts[t].cds_count = 1
        /\ GeneFlags(roots[transcripts[t].gene_id]) = <<TRUE, TRUE, TRUE>>

\* The keys a step adds to the gene table
NewGenes == DOMAIN roots' \ DOMAIN roots

\* C24: every key g of the gene table has id_to_root[g] = g, and a step
\* that adds a key to the gene table is the ingest, by the read loop, of a
\* row with an id and an empty Parent list, and adds the id of that row
\* and nothing else; so no row with a Parent adds a key (feature ids are
\* unique in every input).
C24_GenesFromParentlessRows ==
    /\ [](\A g \in DOMAIN roots :
             g \in DOMAIN id_to_root /\ id_to_root[g] = g)
    /\ [][NewGenes # {} =>
             /\ pc = "read" /\ pos <= Len(stream) /\ pos' = pos + 1
             /\ ~stream[pos].raises
             /\ LET p == parse_gff_line_fast(stream[pos].cols)
                IN /\ p.ok
                   /\ p.parent_ids = <<>>
                   /\ p.feature_id # NoId
                   /\ NewGenes = {p.feature_id}
         ]_vars

\* A run has ended in which rows waited on the orphans list and were
\* resolved, with two genes and their transcripts in the tables.
C24_Witness ==
    /\ pc = "done"
    /\ iteration > 1
    /\ Cardinality(DOMAIN roots) = 2
    /\ Cardinality(DOMAIN transcripts) >= 2
    /\ orphans = <<>>

\* One of the listed parents is a key of id_to_root
SomeParentKnown(parent_ids) ==
    \E k \in 1..Len(parent_ids) : parent_ids[k] \in DOMAIN id_to_root

\* What process_feature returns for the row in the present tables
ProcessedOf(row) ==
    process_feature(TB, row.id, row.type, row.start, row.end, RowLength(row),
                    row.parents, row.biotype).processed

\* The row of a line that the read loop hands to process_feature
ParsedRow(cols) ==
    LET p == parse_gff_line_fast(cols)
    IN Row(p.feature_id, p.feature_type, p.start, p.end, p.parent_ids,
           p.biotype)

\* The read loop is about to ingest a line with a Parent list
ReadsChild ==
    /\ pc = "read" /\ pos <= Len(stream)
    /\ ~stream[pos].raises
    /\ stream[pos].cols.type \notin SKIP_FEATURES
    /\ parse_gff_line_fast(stream[pos].cols).ok
    /\ ParsedRow(stream[pos].cols).parents # <<>>

\* C25: for a row with a non-empty Parent list process_feature returns
\* processed = true if and only if one of the listed parents is a key of
\* id_to_root when it is called, and the row is put on (or kept on) the
\* orphans list exactly when it returned false: by the read loop on
\* orphans, by resolve_orphans on still_orphaned.
C25_ProcessedIffParentKnown ==
    [][/\ (ReadsChild /\ pos' = pos + 1) =>
             LET row == ParsedRow(stream[pos].cols)
             IN /\ ProcessedOf(row) <=> SomeParentKnown(row.parents)
                /\ orphans' = IF SomeParentKnown(row.parents) THEN orphans
                              ELSE Append(orphans, row)
       /\ (pc = "resolve" /\ idx <= Len(orphans) /\ idx' = idx + 1) =>
             LET row == orphans[idx]
             IN /\ ProcessedOf(row) <=> SomeParentKnown(row.parents)
                /\ still_orphaned' =
                       IF SomeParentKnown(row.parents) THEN still_orphaned
                       ELSE Append(still_orphaned, row)
      ]_vars

\* resolve_orphans is at work on a list of which it has kept one row and
\* ingested another, and a transcript whose gene was known went through
\* the read loop.
C25_Witness ==
    /\ pc = "resolve"
    /\ idx > 2
    /\ still_orphaned # <<>>
    /\ Len(still_orphaned) < idx - 1
    /\ DOMAIN transcripts # {}

\* The step hands a row to process_feature, in the read loop or in
\* resolve_orphans
Ingests ==
    \/ /\ pc = "read" /\ pos <= Len(stream) /\ pos' = pos + 1
       /\ ~stream[pos].raises
       /\ stream[pos].cols.type \notin SKIP_FEATURES
       /\ parse_gff_line_fast(stream[pos].cols).ok
    \/ /\ pc = "resolve" /\ idx <= Len(orphans) /\ idx' = idx + 1

\* The row it hands over
IngestedRow ==
    IF pc = "read" THEN ParsedRow(stream[pos].cols) ELSE orphans[idx]

\* C26: a call of process_feature that returns false leaves the gene
\* table, id_to_root and the transcript table as they were: no id_to_root
\* entry for the feature, no transcript entry made, no flag or
\* accumulator changed.
C26_UnprocessedChangesNothing ==
    [][(Ingests /\ ~ProcessedOf(IngestedRow)) => tableVars' = tableVars]_vars

\* The read loop has just put a row on the orphans list while the tables
\* hold a gene and a transcript.
C26_Witness ==
    /\ pc = "read"
    /\ pos > 1
    /\ orphans # <<>>
    /\ ~stream[pos - 1].raises
    /\ stream[pos - 1].cols = LineOf(orphans[Len(orphans)])
    /\ DOMAIN roots # {}
    /\ DOMAIN transcripts # {}

\* One of the parents of the row is resolved and is a gene
HasGeneParent(row) ==
    \E k \in 1..Len(row.parents) :
        /\ row.parents[k] \in DOMAIN id_to_root
        /\ id_to_root[row.parents[k]] = row.parents[k]

\* exon_count, exons_lengths, exon_len_sum, cds_count, cds_lengths and
\* cds_len_sum of a transcript entry
Accumulators(t) ==
    <<t.exon_count, t.exons_lengths, t.exon_len_sum,
      t.cds_count, t.cds_lengths, t.cds_len_sum>>

\* C27: when a transcript row (no exon, no CDS, a gene among its resolved
\* parents) is ingested for an id that has a transcript entry with type
\* unset, the type and the length of the entry become those of the row
\* and its exon_count, exons_lengths, exon_len_sum, cds_count, cds_lengths
\* and cds_len_sum stay as they were.
C27_LazyEntryFilledIn ==
    [][(/\ Ingests
        /\ FEATURE_CODES(IngestedRow.type) = 0
        /\ HasGeneParent(IngestedRow)
        /\ IngestedRow.id \in DOMAIN transcripts
        /\ transcripts[IngestedRow.id].type = NoType)
       => LET t == IngestedRow.id
          IN /\ transcripts'[t].type = IngestedRow.type
             /\ transcripts'[t].length = RowLength(IngestedRow)
             /\ Accumulators(transcripts'[t]) = Accumulators(transcripts[t])
      ]_vars

\* The second row of t has been read after the exon and the CDS of t had
\* made the entry: the entry has the type and length of that row and the
\* exon and the CDS.
C27_Witness ==
    /\ input = LazyThenRow
    /\ pc = "read"
    /\ pos > Len(input)
    /\ transcripts["t"].type = "lnc_RNA"
    /\ transcripts["t"].length = 600
    /\ transcripts["t"].exons_lengths = <<100>>
    /\ transcripts["t"].cds_lengths = <<90>>

\* The rows of the input with the id and the type of a transcript entry
RowsOf(t) ==
    {row \in Range(input) : row.id = t /\ row.type = transcripts[t].type}

\* The length stored for a transcript whose row has been ingested is the
\* span of that row
StoredLengthIsRowSpan ==
    \A t \in DOMAIN transcripts :
        transcripts[t].type # NoType =>
            \E row \in RowsOf(t) : transcripts[t].length = RowLength(row)

\* The transcripts the aggregator counts for a category and, with ttype,
\* for a transcript type, in the order it visits them
CountedIn(cat, ttypes) ==
    SelectSeq(transcripts_keys,
              LAMBDA t : /\ IsCounted(transcripts[t])
                         /\ get_category(root_to_category,
                                         transcripts[t].gene_id) = cat
                         /\ transcripts[t].type \in ttypes)

StoredLengths(ids) == [k \in 1..Len(ids) |-> transcripts[ids[k]].length]

\* The lengths the report summarises for the transcripts of a category
\* and of each of its transcript types are the stored lengths
ReportedLengthIsRowSpan ==
    \A cat \in Categories :
        LET rep == report[ReportKey(cat)]
        IN rep # <<>> =>
            /\ rep.transcripts.length
                  = StoredLengths(CountedIn(cat, TranscriptTypes))
            /\ \A ttype \in DOMAIN rep.transcripts.by_type :
                  rep.transcripts.by_type[ttype].length
                      = StoredLengths(CountedIn(cat, {ttype}))

\* C28: the length of a transcript, as stored and as reported in the
\* transcript length summaries, is the span end - start + 1 of the row of
\* the transcript, never a value computed from the coordinates of its
\* exons or CDS.
C28_LengthIsRowSpan ==
    /\ StoredLengthIsRowSpan
    /\ (pc = "done" /\ report # <<>>) => ReportedLengthIsRowSpan

\* The counted transcripts of a bucket that have more than one exon
MultiExonIn(cat, ttype) ==
    SelectSeq(CountedIn(cat, {ttype}),
              LAMBDA t : transcripts[t].exon_count > 1)

\* transcript.length - exon_len_sum for each of them
IntronAggregates(ids) ==
    [k \in 1..Len(ids) |->
        transcripts[ids[k]].length - transcripts[ids[k]].exon_len_sum]

\* C29: when the report is built, the intron-length list of every
\* (category, transcript type) bucket has one value for each transcript
\* of the bucket with more than one exon, the length of the transcript
\* minus its exon_len_sum, and no other value; so it has as many values
\* as the bucket has transcripts with more than one exon.
C29_OneIntronValuePerTranscript ==
    pc = "done" =>
        \A cat \in Categories :
            \A ttype \in TranscriptTypes :
                DictGet(cat_type_stats[cat].type_intron_lens, ttype, <<>>)
                    = IntronAggregates(MultiExonIn(cat, ttype))

\* The rows of the lines of the stream that parse; a line that does not,
\* or a place where reading fails, gives no row
RowsOfStream ==
    [j \in 1..Len(stream) |->
        IF stream[j].raises \/ ~parse_gff_line_fast(stream[j].cols).ok
        THEN <<>>
        ELSE <<ParsedRow(stream[j].cols)>>]

\* The places <<j, k>> where row j of rows passes the test and lists t as
\* its k-th parent
Listings(rows, t, Test(_)) ==
    UNION {{<<j, k>> : k \in {i \in 1..Len(rows[j][1].parents) :
                                 rows[j][1].parents[i] = t}} :
             j \in {i \in 1..Len(rows) :
                       rows[i] # <<>> /\ Test(rows[i][1])}}

\* How often the rows of the stream list t as the parent of an exon with
\* the coordinates
Listed(rows, t, start, end) ==
    Cardinality(Listings(rows, t,
                         LAMBDA row : /\ row.type = "exon"
                                      /\ row.start = start
                                      /\ row.end = end))

\* How often the rows of the stream list t as the parent of a CDS of the
\* length
ListedCds(rows, t, length) ==
    Cardinality(Listings(rows, t,
                         LAMBDA row : /\ row.type = "CDS"
                                      /\ RowLength(row) = length))

Occurrences(s, v) == Cardinality({i \in 1..Len(s) : s[i] = v})

\* A transcript entry holds an exon or a CDS no more often than rows of
\* the stream list the transcript as its parent
AppliedAtMostOnce ==
    LET rows == RowsOfStream
    IN \A t \in DOMAIN transcripts :
          /\ \A x \in Range(transcripts[t].exons_flat) :
                Occurrences(transcripts[t].exons_flat, x)
                    <= Listed(rows, t, x[1], x[2])
          /\ \A length \in Range(transcripts[t].cds_lengths) :
                Occurrences(transcripts[t].cds_lengths, length)
                    <= ListedCds(rows, t, length)

\* The rows that wait to be handed to process_feature again
Pending ==
    Range(still_orphaned)
      \cup (IF pc = "resolve"
            THEN {orphans[k] : k \in idx..Len(orphans)}
            ELSE Range(orphans))

UniqueIds == Cardinality({input[i].id : i \in 1..Len(input)}) = Len(input)

\* C30: over a run the effect of a row on a parent transcript is applied
\* at most once: a transcript entry holds an exon or a CDS no more often
\* than rows list it as parent, and a row that process_feature has
\* ingested (its id is in id_to_root, the ids being unique) is on no list
\* of rows that are handed to it again, also when another of its parents
\* is resolved later.
C30_EffectAppliedOnce ==
    /\ AppliedAtMostOnce
    /\ UniqueIds =>
          \A row \in Pending : row.id \notin DOMAIN id_to_root

\* The exon of two transcripts waited on the orphans list and was
\* ingested when one of them was resolved; the other, resolved after it,
\* has not got it, and the orphans list is empty.
C30_Witness ==
    /\ base = MultiLeaf
    /\ pc = "done"
    /\ iteration > 0
    /\ orphans = <<>>
    /\ transcripts["t1"].exon_count + transcripts["t2"].exon_count = 1
    /\ \E i, j \in 1..Len(input) :
          /\ i < j
          /\ input[i].id = "e1"
          /\ input[j].id = "g1"

\* resolve_orphans hands an orphan to process_feature
Resubmits ==
    pc = "resolve" /\ idx <= Len(orphans) /\ idx' = idx + 1

\* C31: during a run no record of the orphans list is handed to
\* process_feature again more than once, and a record is handed to it
\* only when one of its parents has been ingested, not because the list
\* is scanned again.
C31_ResubmittedOnce ==
    /\ [](\A orphan \in DOMAIN submitted : submitted[orphan] <= 1)
    /\ [][Resubmits => SomeParentKnown(orphans[idx].parents)]_vars

\* The gene that owns t has the flags that the leaves of t set
OwnerHasFlags(t) ==
    LET info == transcripts[t]
        gene == roots[info.gene_id]
    IN /\ info.exon_count > 0 => gene.has_exon
       /\ info.exon_count > 1 => gene.has_multiple_exons
       /\ info.cds_count > 0 => gene.has_cds

\* C32: in every reachable state every id t with a transcript entry and
\* an id_to_root entry has transcripts[t].gene_id = id_to_root[t], and the
\* flags that the exons and CDS of t set are set on the gene that owns t,
\* also for a row of t that lists a gene and a feature under another gene.
C32_OwnerIsRoot ==
    \A t \in DOMAIN transcripts \cap DOMAIN id_to_root :
        /\ transcripts[t].gene_id = id_to_root[t]
        /\ OwnerHasFlags(t)

\* C33: in every reachable state every value of id_to_root is a key of the
\* gene table and the gene_id of every transcript entry is a key of the
\* gene table, so the lookups that set has_exon, has_cds and
\* has_multiple_exons find their gene.
C33_RootsAreGenes ==
    /\ \A id \in DOMAIN id_to_root : id_to_root[id] \in DOMAIN roots
    /\ \A t \in DOMAIN transcripts : transcripts[t].gene_id \in DOMAIN roots

\* A gene has all three flags set by the leaves of one of its transcripts
\* and a further id is mapped to it
C33_Witness ==
    \E t \in DOMAIN transcripts :
        /\ t \in DOMAIN id_to_root
        /\ transcripts[t].exon_count > 1
        /\ transcripts[t].cds_count > 0
        /\ LET gene == roots[id_to_root[t]]
           IN gene.has_exon /\ gene.has_cds /\ gene.has_multiple_exons
        /\ \E id \in DOMAIN id_to_root :
              id \notin {t, id_to_root[t]} /\ id_to_root[id] = id_to_root[t]

\* The row is an exon or a CDS, one of its parents is resolved and every
\* resolved parent of it is a gene
LeafOfGene(row) ==
    /\ FEATURE_CODES(row.type) # 0
    /\ SomeParentKnown(row.parents)
    /\ \A k \in 1..Len(row.parents) :
          row.parents[k] \in DOMAIN id_to_root
              => id_to_root[row.parents[k]] = row.parents[k]

\* C34: ingesting an exon or CDS row whose resolved parent is itself a
\* gene returns processed = true and records id_to_root for the id of the
\* row, and makes no transcript entry and changes no accumulator and no
\* flag of a gene: has_exon and has_cds of the gene stay as they were.
C34_LeafOfGeneOnlyMapped ==
    [][(Ingests /\ LeafOfGene(IngestedRow)) =>
          LET row == IngestedRow
          IN /\ ProcessedOf(row)
             /\ row.id # NoId =>
                   /\ row.id \in DOMAIN id_to_root'
                   /\ \E k \in 1..Len(row.parents) :
                         id_to_root'[row.id] = row.parents[k]
             /\ \A id \in DOMAIN id_to_root' \ {row.id} :
                   id \in DOMAIN id_to_root /\ id_to_root'[id] = id_to_root[id]
             /\ <<transcripts, transcripts_keys>>' =
                    <<transcripts, transcripts_keys>>
             /\ <<roots, roots_keys>>' = <<roots, roots_keys>>
      ]_vars

\* An exon and a CDS under a gene have been ingested next to a
\* transcript of the gene: both are in id_to_root, neither has an entry,
\* and the gene has no flag set.
C34_Witness ==
    /\ {"e1", "c1", "t1"} \subseteq DOMAIN id_to_root
    /\ id_to_root["e1"] = "g1" /\ id_to_root["c1"] = "g1"
    /\ DOMAIN transcripts = {"t1"}
    /\ ~roots["g1"].has_exon /\ ~roots["g1"].has_cds

NoIdItems == {Item(cols) : cols \in NoIdRows}

\* The read loop is about to ingest a line that has no ID and no Parent
ReadsNoIdRow ==
    /\ pc = "read" /\ pos <= Len(stream)
    /\ ~stream[pos].raises
    /\ stream[pos].cols.type \notin SKIP_FEATURES
    /\ parse_gff_line_fast(stream[pos].cols).ok
    /\ ParsedRow(stream[pos].cols).id = NoId
    /\ ParsedRow(stream[pos].cols).parents = <<>>

\* C35: for a row that has neither an ID nor a Parent attribute
\* process_feature returns false, none of the three tables changes and the
\* row is not put on the orphans list, so that the report counts it
\* neither as a gene nor as an unresolved feature: it is the report of the
\* input without the row.
C35_NoIdRowIgnored ==
    /\ [][ReadsNoIdRow =>
             /\ ~ProcessedOf(ParsedRow(stream[pos].cols))
             /\ UNCHANGED <<tableVars, orphans>>
             /\ pc' = "read" /\ pos' = pos + 1]_vars
    /\ []((pc = "done" /\ ExtraIn(NoIdItems)) =>
              report = compute_gff_stats(input))

\* A run over a stream with a gene row without ID and Parent, after the
\* first row, has returned a report.
C35_Witness ==
    /\ pc = "done"
    /\ ExtraIn({Item(NoIdGene)})
    /\ extra.at \in 2..Len(input)
    /\ report # <<>>
    /\ report = compute_gff_stats(input)

\* C36: the two classifiers of the source agree: for every gene, whatever
\* its feature type, biotype, length and flags, the category that
\* Gene.set_category stores is the category that categorize_roots has
\* returned for it.
C36_ClassifiersAgree ==
    Categorized =>
        \A g \in DOMAIN roots : set_category(roots[g]) = root_to_category[g]

====
